---- MODULE Spec2Model ----
(***************************************************************************)
(* videoServer: the video catalogue (videos, tags, video_tags), the        *)
(* retrieval queries of the Video and Tag models, and the thumbnail        *)
(* selection / commit handlers of the HTTP server.                         *)
(*                                                                         *)
(* Strings are sequences of one-character strings, so that LIKE patterns,  *)
(* path.parse and the file-name matching of the cleanup are computed on    *)
(* text, character by character.                                           *)
(***************************************************************************)
EXTENDS Naturals, Integers, Sequences, FiniteSets, Bags, TLC

VARIABLES
  videos,       \* rows of table videos
  tags,         \* rows of table tags
  video_tags,   \* rows of table video_tags: a bag of (video_id, tag_id)
  nextVideoId,  \* AUTOINCREMENT counter of videos
  nextTagId,    \* AUTOINCREMENT counter of tags
  now,          \* CURRENT_TIMESTAMP, in seconds
  thumbDir,     \* the thumbnail directory: file name -> content
  uploadDir,    \* names of the files in the upload directory
  reqs,         \* in-flight upload / scan requests (their position and locals)
  lastResult    \* what the last completed operation was and what it returned

storeVars == <<videos, tags, video_tags, nextVideoId, nextTagId>>
fsVars == <<thumbDir, uploadDir>>
vars == <<videos, tags, video_tags, nextVideoId, nextTagId, now,
          thumbDir, uploadDir, reqs, lastResult>>

\* ------------------------------------------------------------------ bounds
MaxVideos == 2
MaxTags == 2
MaxLinks == 2
MaxNames == 2

NULL == 0

\* ----------------------------------------------------------- text helpers
Digits == {"0", "1", "2", "3", "4", "5", "6", "7", "8", "9"}

\* String.prototype.startsWith
StartsWith(s, p) ==
  /\ Len(p) <= Len(s)
  /\ SubSeq(s, 1, Len(p)) = p

\* String.prototype.endsWith
EndsWith(s, p) ==
  /\ Len(p) <= Len(s)
  /\ SubSeq(s, Len(s) - Len(p) + 1, Len(s)) = p

\* the positions at which p occurs in s
Occurrences(s, p) ==
  {i \in 1..(Len(s) - Len(p) + 1) : SubSeq(s, i, i + Len(p) - 1) = p}

\* String.prototype.includes
Includes(s, p) == Len(p) = 0 \/ Occurrences(s, p) # {}

SetMin(S) == CHOOSE x \in S : \A y \in S : x <= y
SetMax(S) == CHOOSE x \in S : \A y \in S : x >= y

\* String.prototype.replace(p, r) with a string pattern: first occurrence only
ReplaceFirst(s, p, r) ==
  IF Len(p) = 0 THEN r \o s
  ELSE IF Occurrences(s, p) = {} THEN s
  ELSE LET i == SetMin(Occurrences(s, p))
       IN SubSeq(s, 1, i - 1) \o r \o SubSeq(s, i + Len(p), Len(s))

\* ------------------------------------------------- the relational store
\* new sqlite3.Database(dbPath): no connection ever issues
\* PRAGMA foreign_keys = ON, so SQLite leaves the REFERENCES ... ON DELETE
\* CASCADE clauses of the schema unenforced.
ForeignKeysOn == TRUE
ForeignKeysEnabled == FALSE

VideoIds == {v.id : v \in videos}
TagIds == {t.id : t \in tags}

\* UNIQUE on videos.file_path: may a row with this path be inserted
FilePathNoCheck(rows, fp) == TRUE
FilePathUnique(rows, fp) == \A v \in rows : v.file_path # fp

\* UNIQUE on tags.name (BINARY collation: case-sensitive)
TagNameUnique(rows, name) == \A t \in rows : t.name # name

\* UNIQUE(video_id, tag_id) on video_tags
Link(vid, tid) == [video_id |-> vid, tag_id |-> tid]
PairUnique(rows, vid, tid) == ~BagIn(Link(vid, tid), rows)

\* the rows of video_tags whose (video_id, tag_id) is in keep
LinksIn(rows, keep) == [r \in DOMAIN rows \cap keep |-> rows[r]]

\* the tags reached from tag id through parent_id (ON DELETE CASCADE of
\* tags.parent_id, applied only when foreign keys are enforced)
RECURSIVE TagSubtree(_, _)
TagSubtree(ids, rows) ==
  LET more == {t.id : t \in {x \in rows : x.parent_id \in ids}} \ ids
  IN IF more = {} THEN ids ELSE TagSubtree(ids \cup more, rows)

Range(s) == {s[i] : i \in 1..Len(s)}

\* the sequences over S of length lo..hi
SeqsOf(S, lo, hi) == UNION {[1..n -> S] : n \in lo..hi}

\* ------------------------------------------------------------ Video model
restVars == <<now, thumbDir, uploadDir, reqs>>

\* the row Video.addVideo inserts (created_at DEFAULT CURRENT_TIMESTAMP)
VideoRow(id, filename, title, file_path, thumbnail_path) ==
  [id |-> id, filename |-> filename, title |-> title, file_path |-> file_path,
   thumbnail_path |-> thumbnail_path, created_at |-> now]

\* the INSERT INTO videos of Video.addVideo; rejects on a UNIQUE violation
InsertVideo(filename, title, file_path, thumbnail_path) ==
  IF FilePathUnique(videos, file_path)
  THEN /\ videos' = videos \cup
             {VideoRow(nextVideoId, filename, title, file_path, thumbnail_path)}
       /\ nextVideoId' = nextVideoId + 1
       /\ lastResult' = [op |-> "addVideo", file_path |-> file_path,
                         ok |-> TRUE, ret |-> nextVideoId]
  ELSE /\ UNCHANGED <<videos, nextVideoId>>
       /\ lastResult' = [op |-> "addVideo", file_path |-> file_path,
                         ok |-> FALSE, ret |-> "SQLITE_CONSTRAINT"]

\* Video.addVideo
AddVideo(filename, title, file_path, thumbnail_path) ==
  /\ InsertVideo(filename, title, file_path, thumbnail_path)
  /\ UNCHANGED <<tags, video_tags, nextTagId, restVars>>

\* Video.deleteVideo: DELETE FROM videos WHERE id = ?
DeleteVideo(id) ==
  /\ videos' = {v \in videos : v.id # id}
  /\ video_tags' = IF ForeignKeysEnabled
                   THEN LinksIn(video_tags, {r \in DOMAIN video_tags : r.video_id # id})
                   ELSE video_tags
  /\ lastResult' = [op |-> "deleteVideo", id |-> id, ok |-> TRUE,
                    ret |-> (id \in VideoIds)]
  /\ UNCHANGED <<tags, nextVideoId, nextTagId, restVars>>

\* the video_tags rows after INSERT OR IGNORE INTO video_tags (video_id, tag_id)
InsertAlways(rows, vid, tid) == rows (+) SetToBag({Link(vid, tid)})
InsertOrIgnore(rows, vid, tid) ==
  IF PairUnique(rows, vid, tid)
  THEN rows (+) SetToBag({Link(vid, tid)})
  ELSE rows

\* Video.addTagToVideo: resolves this.changes > 0
AddTagToVideo(vid, tid) ==
  /\ BagCardinality(video_tags) < MaxLinks
  /\ IF ForeignKeysEnabled /\ (vid \notin VideoIds \/ tid \notin TagIds)
     THEN /\ UNCHANGED video_tags
          /\ lastResult' = [op |-> "addTagToVideo", video_id |-> vid, tag_id |-> tid,
                            ok |-> FALSE, ret |-> "SQLITE_CONSTRAINT"]
     ELSE /\ video_tags' = InsertOrIgnore(video_tags, vid, tid)
          /\ lastResult' = [op |-> "addTagToVideo", video_id |-> vid, tag_id |-> tid,
                            ok |-> TRUE, ret |-> (video_tags' # video_tags)]
  /\ UNCHANGED <<videos, tags, nextVideoId, nextTagId, restVars>>

\* Video.removeTagFromVideo: DELETE FROM video_tags WHERE video_id = ? AND tag_id = ?
RemoveTagFromVideo(vid, tid) ==
  /\ video_tags' = LinksIn(video_tags, DOMAIN video_tags \ {Link(vid, tid)})
  /\ lastResult' = [op |-> "removeTagFromVideo", video_id |-> vid, tag_id |-> tid,
                    ok |-> TRUE, ret |-> (video_tags' # video_tags)]
  /\ UNCHANGED <<videos, tags, nextVideoId, nextTagId, restVars>>

\* a search that returns every video whatever the list
SearchReturnsAll(tagNames) == VideoIds

\* the ids of the videos the query of Video.searchByTags selects:
\* v.id IN (SELECT vt2.video_id FROM video_tags vt2 JOIN tags t2 ...
\*          WHERE t2.name IN (names) GROUP BY vt2.video_id
\*          HAVING COUNT(DISTINCT t2.name) = tagNames.length)
SearchByTagsRows(tagNames) ==
  IF Len(tagNames) = 0 THEN {}
  ELSE LET matched(vid) ==
             {t.name : t \in {x \in tags :
                 /\ x.name \in Range(tagNames)
                 /\ BagIn(Link(vid, x.id), video_tags)}}
           inner == {vid \in {r.video_id : r \in DOMAIN video_tags} :
                       Cardinality(matched(vid)) = Len(tagNames)}
       IN {v.id : v \in {x \in videos : x.id \in inner}}

\* Video.searchByTags; queried: this.db.all was called
SearchByTags(tagNames) ==
  /\ lastResult' = [op |-> "searchByTags", tagNames |-> tagNames, ok |-> TRUE,
                    given |-> TRUE, queried |-> Len(tagNames) # 0,
                    ret |-> SearchByTagsRows(tagNames)]
  /\ UNCHANGED <<storeVars, restVars>>

\* Video.searchByTags(undefined): !tagNames resolves [] at once
SearchByTagsUndefined ==
  /\ lastResult' = [op |-> "searchByTags", tagNames |-> <<>>, ok |-> TRUE,
                    given |-> FALSE, queried |-> FALSE, ret |-> {}]
  /\ UNCHANGED <<storeVars, restVars>>

\* -------------------------------------------------------------- Tag model

\* Tag.createTag: INSERT INTO tags; POST /api/tags derives level from parentId
CreateTag(name, parentId) ==
  /\ nextTagId <= MaxTags
  /\ IF /\ TagNameUnique(tags, name)
        /\ (ForeignKeysEnabled /\ parentId # NULL => parentId \in TagIds)
     THEN /\ tags' = tags \cup
                {[id |-> nextTagId, name |-> name, parent_id |-> parentId,
                  level |-> IF parentId # NULL THEN 2 ELSE 1]}
          /\ nextTagId' = nextTagId + 1
          /\ lastResult' = [op |-> "createTag", name |-> name, ok |-> TRUE,
                            ret |-> nextTagId]
     ELSE /\ UNCHANGED <<tags, nextTagId>>
          /\ lastResult' = [op |-> "createTag", name |-> name, ok |-> FALSE,
                            ret |-> "already exists"]
  /\ UNCHANGED <<videos, video_tags, nextVideoId, restVars>>

\* Tag.deleteTag: DELETE FROM tags WHERE id = ?
DeleteTag(id) ==
  /\ LET gone == IF ForeignKeysEnabled /\ id \in TagIds
                 THEN TagSubtree({id}, tags) ELSE {id}
     IN /\ tags' = {t \in tags : t.id \notin gone}
        /\ video_tags' = IF ForeignKeysEnabled
                         THEN LinksIn(video_tags,
                                {r \in DOMAIN video_tags : r.tag_id \notin gone})
                         ELSE video_tags
  /\ lastResult' = [op |-> "deleteTag", id |-> id, ok |-> TRUE,
                    ret |-> (id \in TagIds)]
  /\ UNCHANGED <<videos, nextVideoId, nextTagId, restVars>>

\* the video_count column of Tag.getAllTags:
\* COUNT(vt.video_id) over tags t LEFT JOIN video_tags vt ON t.id = vt.tag_id
VideoCount(tid) ==
  BagCardinality(LinksIn(video_tags, {r \in DOMAIN video_tags : r.tag_id = tid}))

\* Tag.getAllTags (the ORDER BY of the rows is not modelled)
GetAllTags ==
  /\ lastResult' = [op |-> "getAllTags", ok |-> TRUE,
                    ret |-> {[id |-> t.id, name |-> t.name,
                              video_count |-> VideoCount(t.id)] : t \in tags}]
  /\ UNCHANGED <<storeVars, restVars>>

\* --------------------------------------------------------- inputs (catalog)
\* the file name of the videos added to the catalogue
F_a == <<"a", ".", "v">>
LibDir == "lib"

\* tag names
TagNames == {<<"A">>, <<"B">>}

\* ------------------------------------------------- specification: catalog
\* The store starts empty; each step is one call of a model method.  The
\* k-th video added lives in a directory of its own, <<LibDir, k>>.  Tags
\* are attached to videos and tags that exist when the call is made.
NoResult == [op |-> "none", ok |-> TRUE, ret |-> NULL]

Init ==
  /\ videos = {}
  /\ tags = {}
  /\ video_tags = EmptyBag
  /\ nextVideoId = 1
  /\ nextTagId = 1
  /\ now = 0
  /\ thumbDir = <<>>
  /\ uploadDir = {}
  /\ reqs = <<>>
  /\ lastResult = NoResult

Next ==
  \/ /\ nextVideoId <= MaxVideos
     /\ AddVideo(F_a, F_a, <<LibDir, nextVideoId>>, NULL)
  \/ \E id \in 1..MaxVideos : DeleteVideo(id)
  \/ \E n \in TagNames : CreateTag(n, NULL)
  \/ \E id \in 1..MaxTags : DeleteTag(id)
  \/ \E v \in VideoIds, t \in TagIds : AddTagToVideo(v, t)
  \/ \E v \in 1..MaxVideos, t \in 1..MaxTags : RemoveTagFromVideo(v, t)
  \/ GetAllTags

Spec == Init /\ [][Next]_vars

\* ------------------------------------------------------- claims: catalog

\* C7: after deleteVideo(id) no video_tags row with that video id remains,
\* and after deleteTag(id) no video_tags row with that tag id remains.
C7_DeleteCascadesToLinks ==
  /\ lastResult.op = "deleteVideo" =>
       \A r \in DOMAIN video_tags : r.video_id # lastResult.id
  /\ lastResult.op = "deleteTag" =>
       \A r \in DOMAIN video_tags : r.tag_id # lastResult.id

\* the videos of the catalogue that are linked to tag tid
VideosOfTag(tid) == {v \in videos : BagIn(Link(v.id, tid), video_tags)}

\* C9: the video_count getAllTags reports for each tag equals the number of
\* distinct videos associated with that tag at query time.
C9_VideoCountIsLive ==
  lastResult.op = "getAllTags" =>
    \A row \in lastResult.ret :
      row.video_count = Cardinality(VideosOfTag(row.id))

\* C10: there is at most one association row per (video, tag) pair;
\* addTagToVideo on a linked pair leaves the table unchanged and returns
\* false, on an unlinked pair it creates exactly one row and returns true.
C10_IdempotentLink ==
  [][/\ \A r \in DOMAIN video_tags' : video_tags'[r] = 1
     /\ lastResult'.op = "addTagToVideo" =>
          LET l == Link(lastResult'.video_id, lastResult'.tag_id)
          IN IF BagIn(l, video_tags)
             THEN /\ video_tags' = video_tags
                  /\ lastResult'.ret = FALSE
             ELSE /\ video_tags' = video_tags (+) SetToBag({l})
                  /\ CopiesIn(l, video_tags') = 1
                  /\ lastResult'.ret = TRUE]_vars

\* a second addTagToVideo on a linked pair has returned false
C10_Witness ==
  /\ lastResult.op = "addTagToVideo"
  /\ lastResult.ret = FALSE
  /\ CopiesIn(Link(lastResult.video_id, lastResult.tag_id), video_tags) = 1

\* --------------------------------------------- specification: tag hierarchy
\* Tag CRUD alone.  POST /api/tags passes the parentId of the request body
\* to createTag as it is, so any id may be named as a parent.
CasedTagNames == {<<"A">>, <<"a">>, <<"B">>}

NextTags ==
  \/ \E n \in CasedTagNames, p \in {NULL} \cup 1..MaxTags : CreateTag(n, p)
  \/ \E id \in 1..MaxTags : DeleteTag(id)

SpecTags == Init /\ [][NextTags]_vars

NextTagSearch ==
  \/ /\ nextVideoId <= MaxVideos
     /\ AddVideo(F_a, F_a, <<LibDir, nextVideoId>>, NULL)
  \/ \E id \in 1..MaxVideos : DeleteVideo(id)
  \/ \E n \in TagNames : CreateTag(n, NULL)
  \/ \E v \in VideoIds, t \in TagIds : AddTagToVideo(v, t)
  \/ \E v \in VideoIds, t \in TagIds : RemoveTagFromVideo(v, t)
  \/ \E l \in SeqsOf(TagNames, 0, MaxNames) : SearchByTags(l)
  \/ SearchByTagsUndefined

SpecTagSearch == Init /\ [][NextTagSearch]_vars

\* video vid carries a tag named name
Carries(vid, name) ==
  \E t \in tags : t.name = name /\ BagIn(Link(vid, t.id), video_tags)

\* the videos that carry every tag named in the list
CarryAll(tagNames) ==
  {v.id : v \in {x \in videos : \A n \in Range(tagNames) : Carries(x.id, n)}}

\* C1: for every non-empty list of tag names (names may repeat), searchByTags
\* returns exactly the videos that carry every tag named in the list.
C1_SearchByTagsIsIntersection ==
  lastResult.op = "searchByTags" /\ Len(lastResult.tagNames) > 0 =>
    lastResult.ret = CarryAll(lastResult.tagNames)

\* the same for lists without a repeated name: this part holds of the code
C1_HoldsForDistinctNames ==
  /\ lastResult.op = "searchByTags"
  /\ Len(lastResult.tagNames) > 0
  /\ Cardinality(Range(lastResult.tagNames)) = Len(lastResult.tagNames)
  => lastResult.ret = CarryAll(lastResult.tagNames)

\* C11: searchByTags called with an empty or a missing tag list returns an
\* empty result, never the full video list, and without querying the store.
C11_EmptyListFindsNothing ==
  (lastResult.op = "searchByTags"
     /\ (~lastResult.given \/ Len(lastResult.tagNames) = 0)) =>
    /\ lastResult.ret = {}
    /\ ~lastResult.queried

\* an empty list was searched in a catalogue that has a tagged video
C11_Witness ==
  /\ lastResult.op = "searchByTags"
  /\ lastResult.given
  /\ Len(lastResult.tagNames) = 0
  /\ \E v \in videos, t \in tags : BagIn(Link(v.id, t.id), video_tags)

\* ------------------------------------------------------------ title search

\* LOWER() of SQLite and toLowerCase() on the letters of the model's alphabet
LowerChar(c) ==
  CASE c = "M" -> "m"
    [] c = "T" -> "t"
    [] c = "R" -> "r"
    [] c = "A" -> "a"
    [] c = "B" -> "b"
    [] OTHER -> c

LowerStr(s) == [i \in 1..Len(s) |-> LowerChar(s[i])]

\* s LIKE p of SQLite: % is any run of characters, _ any one character,
\* letters compare without case
RECURSIVE Like(_, _)
Like(s, p) ==
  IF p = <<>> THEN s = <<>>
  ELSE IF Head(p) = "%"
       THEN \E k \in 0..Len(s) : Like(SubSeq(s, k + 1, Len(s)), Tail(p))
       ELSE /\ s # <<>>
            /\ Head(p) = "_" \/ LowerChar(Head(p)) = LowerChar(Head(s))
            /\ Like(Tail(s), Tail(p))

\* path.parse(filename).name: the file name without its last extension
PathParseName(filename) ==
  LET dots == {i \in 2..Len(filename) : filename[i] = "."}
  IN IF dots = {} THEN filename ELSE SubSeq(filename, 1, SetMax(dots) - 1)

\* .replace(/\s+/g, ' '): runs of spaces become one space
RECURSIVE CollapseSpaces(_)
CollapseSpaces(s) ==
  IF Len(s) < 2 THEN s
  ELSE IF s[1] = " " /\ s[2] = " " THEN CollapseSpaces(Tail(s))
  ELSE <<s[1]>> \o CollapseSpaces(Tail(s))

\* String.prototype.trim
RECURSIVE Trim(_)
Trim(s) ==
  IF s = <<>> THEN s
  ELSE IF Head(s) = " " THEN Trim(Tail(s))
  ELSE IF s[Len(s)] = " " THEN Trim(SubSeq(s, 1, Len(s) - 1))
  ELSE s

\* FileScanner.extractTitle
ExtractTitle(filename) ==
  LET name == PathParseName(filename)
      spaced == [i \in 1..Len(name) |->
                   IF name[i] \in {".", "_", "-"} THEN " " ELSE name[i]]
  IN Trim(CollapseSpaces(spaced))

\* a CASE expression that tests the word-start pattern before containment
MatchPriorityWordStartFirst(title, filename, q) ==
  LET lt == LowerStr(title)
      lf == LowerStr(filename)
      ql == LowerStr(q)
  IN IF lt = ql \/ lf = ql THEN 1
     ELSE IF Like(lt, ql \o <<"%">>) \/ Like(lf, ql \o <<"%">>) THEN 2
     ELSE IF Like(lt, <<"%", " ">> \o ql \o <<"%">>)
             \/ Like(lf, <<"%", " ">> \o ql \o <<"%">>) THEN 3
     ELSE IF Like(lt, <<"%">> \o ql \o <<"%">>)
             \/ Like(lf, <<"%">> \o ql \o <<"%">>) THEN 4
     ELSE 5

\* the CASE expression of Video.enhancedSearchByTitle: match_priority
MatchPriority(title, filename, q) ==
  LET lt == LowerStr(title)
      lf == LowerStr(filename)
      ql == LowerStr(q)
  IN IF lt = ql \/ lf = ql THEN 1
     ELSE IF Like(lt, ql \o <<"%">>) \/ Like(lf, ql \o <<"%">>) THEN 2
     ELSE IF Like(lt, <<"%">> \o ql \o <<"%">>)
             \/ Like(lf, <<"%">> \o ql \o <<"%">>) THEN 3
     ELSE IF Like(lt, <<"%", " ">> \o ql \o <<"%">>)
             \/ Like(lf, <<"%", " ">> \o ql \o <<"%">>) THEN 4
     ELSE 5

\* the WHERE clause of Video.enhancedSearchByTitle
TitleWhere(title, filename, q) ==
  LET lt == LowerStr(title)
      lf == LowerStr(filename)
      ql == LowerStr(q)
  IN \/ Like(lt, <<"%">> \o ql \o <<"%">>)
     \/ Like(lf, <<"%">> \o ql \o <<"%">>)
     \/ Like(lt, ql \o <<"%">>)
     \/ Like(lf, ql \o <<"%">>)
     \/ Like(lt, <<"%", " ">> \o ql \o <<"%">>)
     \/ Like(lf, <<"%", " ">> \o ql \o <<"%">>)

VideoById(id) == CHOOSE v \in videos : v.id = id

\* the orders of the ids in S that ORDER BY match_priority ASC, created_at DESC
\* allows, given each id's priority and creation time; rows that tie in both
\* may come in either order
RECURSIVE SortedOrders(_, _, _)
SortedOrders(S, match_priority, created_at) ==
  IF S = {} THEN {<<>>}
  ELSE LET first == {x \in S : \A y \in S :
                       \/ match_priority[x] < match_priority[y]
                       \/ /\ match_priority[x] = match_priority[y]
                          /\ created_at[x] >= created_at[y]}
       IN UNION {{<<x>> \o rest :
                    rest \in SortedOrders(S \ {x}, match_priority, created_at)} :
                 x \in first}

TitleOrders(S, q) ==
  SortedOrders(S,
    [id \in S |-> MatchPriority(VideoById(id).title, VideoById(id).filename, q)],
    [id \in S |-> VideoById(id).created_at])

\* Video.enhancedSearchByTitle: the ids of the rows, in the order returned
EnhancedSearchByTitle(q) ==
  /\ \E o \in TitleOrders({v.id : v \in {x \in videos :
                                TitleWhere(x.title, x.filename, q)}}, q) :
       lastResult' = [op |-> "enhancedSearchByTitle", q |-> q, ok |-> TRUE,
                      ret |-> o]
  /\ UNCHANGED <<storeVars, restVars>>

\* CURRENT_TIMESTAMP advances by a second
Tick ==
  /\ now' = now + 1
  /\ UNCHANGED <<storeVars, thumbDir, uploadDir, reqs, lastResult>>

\* --------------------------------------------- specification: title search
\* Files are ingested (POST /api/upload, POST /api/scan: the title is
\* extractTitle(filename)), time passes, and the catalogue is searched.
MaxTitleVideos == 3
MaxTime == 1

Ext == <<".", "m", "p", "4">>
F_Matrix == <<"M", "a", "t", "r", "i", "x">> \o Ext
F_TheMatrixReloaded == <<"T", "h", "e", " ", "M", "a", "t", "r", "i", "x", " ", "R", "e", "l", "o", "a", "d", "e", "d">> \o Ext
F_xMatrixx == <<"x", "M", "a", "t", "r", "i", "x", "x">> \o Ext
F_The_Matrix == <<"T", "h", "e", "_", "M", "a", "t", "r", "i", "x">> \o Ext
TitleFiles == {F_Matrix, F_TheMatrixReloaded, F_xMatrixx, F_The_Matrix}

Q_Matrix == <<"M", "a", "t", "r", "i", "x">>
Q_Matri_ == <<"M", "a", "t", "r", "i", "_">>
Q_x == <<"x">>
TitleQueries == {Q_Matrix, Q_Matri_, Q_x}

UploadsDir == "uploads"

NextTitle ==
  \/ \E f \in TitleFiles :
       /\ nextVideoId <= MaxTitleVideos
       /\ AddVideo(f, ExtractTitle(f), <<UploadsDir, f>>, NULL)
  \/ now < MaxTime /\ Tick
  \/ \E q \in TitleQueries : EnhancedSearchByTitle(q)

SpecTitle == Init /\ [][NextTitle]_vars

\* text of the claims: case-insensitive equality, prefix and containment
EqualsIC(s, q) == LowerStr(s) = LowerStr(q)
PrefixIC(s, q) == StartsWith(LowerStr(s), LowerStr(q))
ContainsIC(s, q) == Includes(LowerStr(s), LowerStr(q))
WordStartIC(s, q) == Includes(LowerStr(s), <<" ">> \o LowerStr(q))

\* the lowest-numbered tier a video satisfies (1 exact, 2 prefix,
\* 3 substring, 4 word-start)
BestTier(v, q) ==
  IF EqualsIC(v.title, q) \/ EqualsIC(v.filename, q) THEN 1
  ELSE IF PrefixIC(v.title, q) \/ PrefixIC(v.filename, q) THEN 2
  ELSE IF ContainsIC(v.title, q) \/ ContainsIC(v.filename, q) THEN 3
  ELSE IF WordStartIC(v.title, q) \/ WordStartIC(v.filename, q) THEN 4
  ELSE 5

TitleSearched == lastResult.op = "enhancedSearchByTitle"

\* C2: enhancedSearchByTitle(q) returns exactly the videos whose title or
\* filename contains q ignoring case, each once, ordered by the lowest tier
\* the video satisfies and by creation time descending within a tier (so a
\* tier-1 video precedes every video whose best tier is 3).
C2_TitleSearchContract ==
  TitleSearched =>
    LET q == lastResult.q
        ret == lastResult.ret
    IN /\ Range(ret) = {v.id : v \in {x \in videos :
                           ContainsIC(x.title, q) \/ ContainsIC(x.filename, q)}}
       /\ \A i, j \in DOMAIN ret : i # j => ret[i] # ret[j]
       /\ \A i, j \in DOMAIN ret : i < j =>
            LET a == VideoById(ret[i])
                b == VideoById(ret[j])
            IN \/ BestTier(a, q) < BestTier(b, q)
               \/ /\ BestTier(a, q) = BestTier(b, q)
                  /\ a.created_at >= b.created_at

\* the LIKE wildcards
PlainQuery(q) == \A i \in DOMAIN q : q[i] \notin {"%", "_"}

\* C2 holds of the searches whose query has no LIKE wildcard
C2_HoldsForPlainQueries ==
  (TitleSearched /\ ~PlainQuery(lastResult.q)) \/ C2_TitleSearchContract

\* where q occurs in the title and the filename of v: the characters before
\* the occurrences ("" for an occurrence at the start)
BeforeOccurrences(v, q) ==
  LET before(s) == {IF i = 1 THEN "" ELSE s[i - 1] :
                      i \in Occurrences(LowerStr(s), LowerStr(q))}
  IN before(v.title) \cup before(v.filename)

\* q occurs in v only at a word start after a space
WordStartOnly(v, q) ==
  BeforeOccurrences(v, q) = {" "}

\* q occurs in v only inside a word
InsideWordOnly(v, q) ==
  /\ BeforeOccurrences(v, q) # {}
  /\ BeforeOccurrences(v, q) \cap {"", " "} = {}

\* C3 as stated: a video whose title equals the query precedes a video where
\* the query occurs only at a word start, which precedes a video where it
\* occurs only inside a word, regardless of creation times.
C3_WordStartBeforeInsideWord ==
  TitleSearched =>
    LET q == lastResult.q
        ret == lastResult.ret
    IN \A i, j \in DOMAIN ret : i < j =>
         LET a == VideoById(ret[i])
             b == VideoById(ret[j])
         IN /\ ~(WordStartOnly(a, q) /\ EqualsIC(b.title, q))
            /\ ~(InsideWordOnly(a, q) /\ EqualsIC(b.title, q))
            /\ ~(InsideWordOnly(a, q) /\ WordStartOnly(b, q))

\* C3, amended: for a query without LIKE wildcards, a video whose title
\* equals the query precedes the videos where the query occurs only at a word
\* start or only inside a word, regardless of creation times; those two kinds
\* rank alike (the containment test comes first, so no row is ranked 4) and
\* are ordered between themselves by creation time descending.
C3_WordStartRanksWithInsideWord ==
  (TitleSearched /\ PlainQuery(lastResult.q)) =>
    LET q == lastResult.q
        ret == lastResult.ret
        later(v) == WordStartOnly(v, q) \/ InsideWordOnly(v, q)
    IN /\ \A i \in DOMAIN ret :
            LET v == VideoById(ret[i])
            IN MatchPriority(v.title, v.filename, q) \in 1..3
       /\ \A i, j \in DOMAIN ret : i < j =>
            LET a == VideoById(ret[i])
                b == VideoById(ret[j])
            IN /\ ~(later(a) /\ EqualsIC(b.title, q))
               /\ (later(a) /\ later(b)) => a.created_at >= b.created_at

\* a search for "Matrix" has returned "Matrix", then the newer "xMatrixx",
\* then the older "The Matrix Reloaded"
C3_Witness ==
  /\ TitleSearched
  /\ lastResult.q = Q_Matrix
  /\ Len(lastResult.ret) = 3
  /\ VideoById(lastResult.ret[1]).filename = F_Matrix
  /\ VideoById(lastResult.ret[2]).filename = F_xMatrixx
  /\ VideoById(lastResult.ret[3]).filename = F_TheMatrixReloaded
  /\ VideoById(lastResult.ret[2]).created_at
       > VideoById(lastResult.ret[3]).created_at
  /\ WordStartOnly(VideoById(lastResult.ret[3]), Q_Matrix)
  /\ InsideWordOnly(VideoById(lastResult.ret[2]), Q_Matrix)

\* ------------------------------------------------- thumbnails on the disk
S_selection_ == <<"s", "e", "l", "e", "c", "t", "i", "o", "n", "_">>
S_thumb_ == <<"t", "h", "u", "m", "b", "_">>
S_jpg == <<".", "j", "p", "g">>
S_svg == <<".", "s", "v", "g">>
DigitChars == <<"0", "1", "2", "3", "4", "5", "6", "7", "8", "9">>

\* Number.prototype.toString / template literal ${i}
RECURSIVE NumberToString(_)
NumberToString(n) ==
  IF n < 10 THEN <<DigitChars[n + 1]>>
  ELSE NumberToString(n \div 10) \o <<DigitChars[(n % 10) + 1]>>

\* path.parse(filename).ext
PathParseExt(filename) ==
  SubSeq(filename, Len(PathParseName(filename)) + 1, Len(filename))

\* ThumbnailGenerator.getThumbnailFilename
GetThumbnailFilename(filename) == S_thumb_ \o PathParseName(filename) \o S_jpg

\* the name generateSelectionThumbnails gives candidate i
SelectionFilename(i, filename) ==
  S_selection_ \o NumberToString(i) \o <<"_">> \o GetThumbnailFilename(filename)

\* the number of digits at the start / at the end of s
RECURSIVE LeadingDigits(_)
LeadingDigits(s) ==
  IF s # <<>> /\ Head(s) \in Digits THEN 1 + LeadingDigits(Tail(s)) ELSE 0
RECURSIVE TrailingDigits(_)
TrailingDigits(s) ==
  IF s # <<>> /\ s[Len(s)] \in Digits
  THEN 1 + TrailingDigits(SubSeq(s, 1, Len(s) - 1)) ELSE 0

\* s.replace(/^\d+_thumb_/, '')
StripIndex(s) ==
  LET d == LeadingDigits(s)
      rest == SubSeq(s, d + 1, Len(s))
  IN IF d > 0 /\ StartsWith(rest, <<"_">> \o S_thumb_)
     THEN SubSeq(rest, Len(S_thumb_) + 2, Len(rest)) ELSE s

\* s.replace(/_\d+$/, '')
StripCounter(s) ==
  LET d == TrailingDigits(s)
  IN IF d > 0 /\ Len(s) > d /\ s[Len(s) - d] = "_"
     THEN SubSeq(s, 1, Len(s) - d - 1) ELSE s

\* the first filter of cleanupUnusedThumbnails: selection_*thumb_*.jpg
IsSelectionThumbnail(file) ==
  /\ StartsWith(file, S_selection_)
  /\ Includes(file, S_thumb_)
  /\ EndsWith(file, S_jpg)

\* a matcher that compares the exact base name only
CleanupMatchesExactly(file, baseName) ==
  ReplaceFirst(StripIndex(ReplaceFirst(file, S_selection_, <<>>)), S_jpg, <<>>)
    = baseName

\* the second filter of cleanupUnusedThumbnails
CleanupMatches(file, baseName) ==
  LET fileBaseName ==
        ReplaceFirst(StripIndex(ReplaceFirst(file, S_selection_, <<>>)),
                     S_jpg, <<>>)
      targetBaseName == StripCounter(baseName)
  IN \/ Includes(fileBaseName, targetBaseName)
     \/ Includes(targetBaseName, fileBaseName)
     \/ Includes(file, S_thumb_ \o baseName)
     \/ Includes(file, S_thumb_ \o targetBaseName)

\* the files cleanupUnusedThumbnails(filename, _) removes from directory dir
CleanupTargets(dir, filename) ==
  {file \in DOMAIN dir :
     IsSelectionThumbnail(file) /\ CleanupMatches(file, PathParseName(filename))}

\* fs.writeFile / fs.copy / ffmpeg output, and fs.remove
WriteFile(dir, name, content) ==
  [x \in DOMAIN dir \cup {name} |-> IF x = name THEN content ELSE dir[x]]
RemoveFiles(dir, names) == [x \in DOMAIN dir \ names |-> dir[x]]

\* what an image shows: the video file it was taken from and the time mark
DefaultMark == <<"1", "0", "s">>
SvgMark == <<"s", "v", "g">>
Image(filename, mark) == <<filename, mark>>

\* what the transcoder does when generateThumbnail needs it: "end" (the frame
\* is written), "error" (the error event), "throws" (ffmpeg(...) throws), or
\* "missing" (fluent-ffmpeg could not be loaded)
TranscoderOutcomes == {"end", "error", "throws", "missing"}

\* a generateThumbnail that rejects when the transcoder gives no frame
GenerateThumbnailOrReject(dir, filename, outcome) ==
  LET name == GetThumbnailFilename(filename)
  IN IF name \in DOMAIN dir \/ outcome = "end"
     THEN [dir |-> WriteFile(dir, name, Image(filename, DefaultMark)),
           name |-> name, rejected |-> FALSE, invoked |-> TRUE,
           placeholder |-> FALSE]
     ELSE [dir |-> dir, name |-> <<>>, rejected |-> TRUE, invoked |-> TRUE,
           placeholder |-> FALSE]

\* ThumbnailGenerator.generateThumbnail: the directory afterwards, the name of
\* the file whose path is returned, whether the promise rejected, whether the
\* transcoder was invoked and whether createPlaceholderThumbnail wrote a file
GenerateThumbnailWith(dir, filename, outcome) ==
  LET name == GetThumbnailFilename(filename)
      svg == ReplaceFirst(name, S_jpg, S_svg)
  IN IF name \in DOMAIN dir
     THEN [dir |-> dir, name |-> name, rejected |-> FALSE, invoked |-> FALSE,
           placeholder |-> FALSE]
     ELSE IF outcome = "end"
     THEN [dir |-> WriteFile(dir, name, Image(filename, DefaultMark)),
           name |-> name, rejected |-> FALSE, invoked |-> TRUE,
           placeholder |-> FALSE]
     ELSE [dir |-> WriteFile(dir, svg, Image(filename, SvgMark)),
           name |-> svg, rejected |-> FALSE, invoked |-> outcome # "missing",
           placeholder |-> TRUE]

\* generateThumbnail where the transcoder either works or reports an error
GenerateThumbnail(dir, filename, works) ==
  GenerateThumbnailWith(dir, filename, IF works THEN "end" ELSE "error")

\* ThumbnailGenerator.generateSelectionThumbnails: candidates 1..count, an
\* existing candidate file is used as it is
RECURSIVE GenerateSelectionThumbnails(_, _, _)
GenerateSelectionThumbnails(dir, filename, count) ==
  IF count = 0 THEN dir
  ELSE LET before == GenerateSelectionThumbnails(dir, filename, count - 1)
           name == SelectionFilename(count, filename)
       IN IF name \in DOMAIN before THEN before
          ELSE WriteFile(before, name, Image(filename, NumberToString(count)))

\* multer's filename callback: the first free name among name.ext,
\* name_1.ext, name_2.ext, ...
RECURSIVE MulterFilename(_, _, _)
MulterFilename(originalName, dir, counter) ==
  LET finalName == IF counter = 0 THEN originalName
                   ELSE PathParseName(originalName) \o <<"_">>
                          \o NumberToString(counter) \o PathParseExt(originalName)
  IN IF finalName \in dir THEN MulterFilename(originalName, dir, counter + 1)
     ELSE finalName

ThumbnailsDir == "thumbnails"

\* Video.updateVideo(id, {thumbnail_path})
UpdateThumbnailPath(rows, id, thumbnail_path) ==
  {IF v.id = id THEN [v EXCEPT !.thumbnail_path = thumbnail_path] ELSE v :
     v \in rows}

MaxUploads == 2
SelectionCount == 2

\* POST /api/upload-preview
UploadPreview(originalName, works) ==
  LET filename == MulterFilename(originalName, uploadDir, 0)
  IN /\ Cardinality(uploadDir) < MaxUploads
     /\ IF works
        THEN /\ uploadDir' = uploadDir \cup {filename}
             /\ thumbDir' =
                  GenerateSelectionThumbnails(thumbDir, filename, SelectionCount)
             /\ lastResult' = [op |-> "uploadPreview", ok |-> TRUE,
                               filename |-> filename]
        ELSE /\ UNCHANGED <<uploadDir, thumbDir>>
             /\ lastResult' = [op |-> "uploadPreview", ok |-> FALSE,
                               filename |-> filename]
     /\ UNCHANGED <<storeVars, now, reqs>>

\* POST /api/upload; selectedThumbnail is <<>> when the form has none
Upload(originalName, selectedThumbnail, works) ==
  LET filename == MulterFilename(originalName, uploadDir, 0)
      filePath == <<UploadsDir, filename>>
      copied == selectedThumbnail # <<>> /\ selectedThumbnail \in DOMAIN thumbDir
      main == GetThumbnailFilename(filename)
      made == IF copied
              THEN [dir |-> WriteFile(thumbDir, main, thumbDir[selectedThumbnail]),
                    name |-> main]
              ELSE GenerateThumbnail(thumbDir, filename, works)
      thumbnailPath == <<ThumbnailsDir, made.name>>
      existingVideo == {v \in videos : v.file_path = filePath}
      removed == IF selectedThumbnail # <<>>
                 THEN CleanupTargets(made.dir, filename) ELSE {}
  IN /\ Cardinality(uploadDir) < MaxUploads
     /\ nextVideoId <= MaxVideos
     /\ uploadDir' = uploadDir \cup {filename}
     /\ IF existingVideo # {}
        THEN /\ videos' = UpdateThumbnailPath(videos,
                            (CHOOSE v \in existingVideo : TRUE).id, thumbnailPath)
             /\ UNCHANGED nextVideoId
        ELSE /\ videos' = videos \cup {VideoRow(nextVideoId, filename,
                            ExtractTitle(filename), filePath, thumbnailPath)}
             /\ nextVideoId' = nextVideoId + 1
     /\ thumbDir' = RemoveFiles(made.dir, removed)
     /\ lastResult' = [op |-> "upload", ok |-> TRUE, filename |-> filename,
                       chosen |-> selectedThumbnail, copied |-> copied,
                       content |-> IF copied THEN thumbDir[selectedThumbnail]
                                   ELSE <<>>,
                       removed |-> removed]
     /\ UNCHANGED <<tags, video_tags, nextTagId, now, reqs>>

\* GET /api/videos/:id/thumbnail-options
ThumbnailOptions(id, works) ==
  /\ IF id \in VideoIds /\ works /\ VideoById(id).filename \in uploadDir
     THEN thumbDir' = GenerateSelectionThumbnails(thumbDir,
                        VideoById(id).filename, SelectionCount)
     ELSE UNCHANGED thumbDir
  /\ lastResult' = [op |-> "thumbnailOptions", ok |-> id \in VideoIds, id |-> id]
  /\ UNCHANGED <<storeVars, uploadDir, now, reqs>>

\* POST /api/videos/:id/set-thumbnail
SetThumbnail(id, thumbnailFilename) ==
  /\ IF thumbnailFilename # <<>> /\ id \in VideoIds
        /\ thumbnailFilename \in DOMAIN thumbDir
     THEN LET removed == CleanupTargets(thumbDir, VideoById(id).filename)
          IN /\ videos' = UpdateThumbnailPath(videos, id,
                            <<ThumbnailsDir, thumbnailFilename>>)
             /\ thumbDir' = RemoveFiles(thumbDir, removed)
             /\ lastResult' = [op |-> "setThumbnail", ok |-> TRUE,
                               filename |-> VideoById(id).filename,
                               chosen |-> thumbnailFilename, copied |-> TRUE,
                               content |-> thumbDir[thumbnailFilename],
                               removed |-> removed]
     ELSE /\ UNCHANGED <<videos, thumbDir>>
          /\ lastResult' = [op |-> "setThumbnail", ok |-> FALSE,
                            filename |-> <<>>, chosen |-> thumbnailFilename,
                            copied |-> FALSE, content |-> <<>>, removed |-> {}]
  /\ UNCHANGED <<tags, video_tags, nextVideoId, nextTagId, uploadDir, now, reqs>>

\* ----------------------------------------- specification: thumbnail choice
F_clip == <<"c", "l", "i", "p">> \o Ext

\* the names the upload form can send: none, or a candidate that
\* upload-preview listed for a stored file that is no video yet (the
\* candidate may be gone by now)
UploadChoices ==
  {<<>>} \cup {SelectionFilename(i, f) : i \in 1..SelectionCount,
                                          f \in uploadDir \ {v.filename : v \in videos}}

\* the names the thumbnail dialog of video id can send: the candidates that
\* thumbnail-options listed, or the current thumbnail
DialogChoices(id) ==
  IF id \in VideoIds
  THEN {SelectionFilename(i, VideoById(id).filename) : i \in 1..SelectionCount}
         \cup {VideoById(id).thumbnail_path[2]}
  ELSE {SelectionFilename(1, F_clip)}

NextThumb ==
  \/ \E works \in BOOLEAN : UploadPreview(F_clip, works)
  \/ \E works \in BOOLEAN, selectedThumbnail \in UploadChoices :
       Upload(F_clip, selectedThumbnail, works)
  \/ \E id \in 1..MaxVideos, works \in BOOLEAN : ThumbnailOptions(id, works)
  \/ \E id \in 1..MaxVideos :
       \E thumbnailFilename \in DialogChoices(id) :
         SetThumbnail(id, thumbnailFilename)

SpecThumb == Init /\ [][NextThumb]_vars

\* a thumbnail commit has completed: set-thumbnail answered success, or an
\* upload with a pre-chosen thumbnail did
Committed ==
  /\ lastResult.op \in {"setThumbnail", "upload"}
  /\ lastResult.ok
  /\ lastResult.chosen # <<>>

\* file is a selection candidate selection_<n>_thumb_<baseName>.jpg
IsCandidateOf(file, baseName) ==
  LET tail == <<"_">> \o S_thumb_ \o baseName \o S_jpg
      n == SubSeq(file, Len(S_selection_) + 1, Len(file) - Len(tail))
  IN /\ StartsWith(file, S_selection_)
     /\ EndsWith(file, tail)
     /\ Len(file) > Len(S_selection_) + Len(tail)
     /\ \A i \in DOMAIN n : n[i] \in Digits

\* C4: after a thumbnail commit completes, no selection_<n>_thumb_<basename>.jpg
\* of the video's base name remains in the thumbnail directory (the chosen
\* candidate included), nor one of the base name without its upload counter.
C4_NoCandidateRemains ==
  Committed =>
    \A file \in DOMAIN thumbDir :
      /\ ~IsCandidateOf(file, PathParseName(lastResult.filename))
      /\ ~IsCandidateOf(file, StripCounter(PathParseName(lastResult.filename)))

\* set-thumbnail has committed a selection candidate of the video and the
\* cleanup has removed it together with the other candidate
C4_Witness ==
  /\ Committed
  /\ lastResult.op = "setThumbnail"
  /\ IsCandidateOf(lastResult.chosen, PathParseName(lastResult.filename))
  /\ lastResult.chosen \in lastResult.removed
  /\ Cardinality(lastResult.removed) >= 2

\* the video a commit was about
CommittedVideo == CHOOSE v \in videos : v.filename = lastResult.filename

\* the commit was of a selection candidate that existed
CandidateCommitted ==
  /\ Committed
  /\ lastResult.copied
  /\ IsSelectionThumbnail(lastResult.chosen)

\* C5: after a thumbnail commit of a selection candidate, thumb_<basename>.jpg
\* exists with the content of the chosen candidate, and the thumbnail_path of
\* the video names a file that exists.
C5_CommittedCopyExists ==
  CandidateCommitted =>
    LET main == GetThumbnailFilename(lastResult.filename)
    IN /\ main \in DOMAIN thumbDir
       /\ thumbDir[main] = lastResult.content
       /\ CommittedVideo.thumbnail_path[2] \in DOMAIN thumbDir

\* the upload path alone keeps C5
C5_HoldsForUpload ==
  (Committed /\ lastResult.op = "setThumbnail") \/ C5_CommittedCopyExists

\* ------------------------------------- specification: concurrent ingestion
\* POST /api/upload and POST /api/scan as they interleave: a handler runs up
\* to an await of a database call, and other requests run in between. reqs
\* holds the requests in flight: the files still to process (file paths) and
\* the database call the handler is about to make for the first of them.
MaxReqs == 2

RemoveAt(s, i) == SubSeq(s, 1, i - 1) \o SubSeq(s, i + 1, Len(s))

\* the handler of request i is done with its first file
NextFile(i) ==
  IF Len(reqs[i].files) = 1 THEN RemoveAt(reqs, i)
  ELSE [reqs EXCEPT ![i] = [@ EXCEPT !.files = Tail(@), !.pc = "select"]]

\* SELECT ... FROM videos WHERE file_path = ?
SelectByFilePath(rows, file_path) == {v \in rows : v.file_path = file_path}

\* the files of the scanned directory (the library holds one video)
Listing(directory) ==
  IF directory = UploadsDir THEN uploadDir
  ELSE IF directory = LibDir THEN {F_a}
  ELSE {}

\* the orders in which readdir may list the set S
Orders(S) ==
  {o \in [1..Cardinality(S) -> S] : \A i, j \in DOMAIN o : i # j => o[i] # o[j]}

\* POST /api/scan up to the first SELECT: fileScanner.scanDirectory
ScanBegin(directory) ==
  /\ Len(reqs) < MaxReqs
  /\ Listing(directory) # {}
  /\ \E o \in Orders(Listing(directory)) :
       reqs' = Append(reqs, [kind |-> "scan", pc |-> "select",
                             files |-> [k \in DOMAIN o |-> <<directory, o[k]>>]])
  /\ UNCHANGED <<storeVars, now, thumbDir, uploadDir, lastResult>>

\* POST /api/scan: SELECT id FROM videos WHERE file_path = ?; a known file is
\* skipped, for a new one the thumbnail is generated
ScanSelect(i) ==
  LET file_path == reqs[i].files[1]
  IN /\ reqs[i].kind = "scan" /\ reqs[i].pc = "select"
     /\ IF SelectByFilePath(videos, file_path) = {}
        THEN /\ reqs' = [reqs EXCEPT ![i] = [@ EXCEPT !.pc = "insert"]]
             /\ thumbDir' = GenerateThumbnail(thumbDir, file_path[2], TRUE).dir
        ELSE /\ reqs' = NextFile(i)
             /\ UNCHANGED thumbDir
     /\ UNCHANGED <<storeVars, now, uploadDir, lastResult>>

\* POST /api/scan: video.addVideo; a rejection is caught and the loop goes on
ScanInsert(i) ==
  LET file_path == reqs[i].files[1]
  IN /\ reqs[i].kind = "scan" /\ reqs[i].pc = "insert"
     /\ FilePathUnique(videos, file_path) => nextVideoId <= MaxVideos
     /\ InsertVideo(file_path[2], ExtractTitle(file_path[2]), file_path,
                    <<ThumbnailsDir, GetThumbnailFilename(file_path[2])>>)
     /\ reqs' = NextFile(i)
     /\ UNCHANGED <<tags, video_tags, nextTagId, now, thumbDir, uploadDir>>

\* POST /api/upload up to the SELECT: multer stores the file, the thumbnail
\* is generated
UploadBegin(originalName) ==
  LET filename == MulterFilename(originalName, uploadDir, 0)
  IN /\ Len(reqs) < MaxReqs
     /\ Cardinality(uploadDir) < MaxUploads
     /\ uploadDir' = uploadDir \cup {filename}
     /\ thumbDir' = GenerateThumbnail(thumbDir, filename, TRUE).dir
     /\ reqs' = Append(reqs, [kind |-> "upload", pc |-> "select",
                              files |-> << <<UploadsDir, filename>> >>])
     /\ UNCHANGED <<storeVars, now, lastResult>>

\* POST /api/upload: SELECT * FROM videos WHERE file_path = ?
UploadSelect(i) ==
  /\ reqs[i].kind = "upload" /\ reqs[i].pc = "select"
  /\ reqs' = [reqs EXCEPT ![i] = [@ EXCEPT !.pc =
                IF SelectByFilePath(videos, reqs[i].files[1]) = {}
                THEN "insert" ELSE "update"]]
  /\ UNCHANGED <<storeVars, now, thumbDir, uploadDir, lastResult>>

\* POST /api/upload: video.updateVideo of the existing row
UploadUpdate(i) ==
  LET file_path == reqs[i].files[1]
      existingVideo == CHOOSE v \in SelectByFilePath(videos, file_path) : TRUE
  IN /\ reqs[i].kind = "upload" /\ reqs[i].pc = "update"
     /\ videos' = UpdateThumbnailPath(videos, existingVideo.id,
                    <<ThumbnailsDir, GetThumbnailFilename(file_path[2])>>)
     /\ lastResult' = [op |-> "updateVideo", file_path |-> file_path,
                       ok |-> TRUE, ret |-> existingVideo.id]
     /\ reqs' = RemoveAt(reqs, i)
     /\ UNCHANGED <<tags, video_tags, nextVideoId, nextTagId, now, thumbDir,
                    uploadDir>>

\* POST /api/upload: video.addVideo; a rejection ends the request with 500
UploadInsert(i) ==
  LET file_path == reqs[i].files[1]
  IN /\ reqs[i].kind = "upload" /\ reqs[i].pc = "insert"
     /\ FilePathUnique(videos, file_path) => nextVideoId <= MaxVideos
     /\ InsertVideo(file_path[2], ExtractTitle(file_path[2]), file_path,
                    <<ThumbnailsDir, GetThumbnailFilename(file_path[2])>>)
     /\ reqs' = RemoveAt(reqs, i)
     /\ UNCHANGED <<tags, video_tags, nextTagId, now, thumbDir, uploadDir>>

NextIngest ==
  \/ \E directory \in {LibDir, UploadsDir} : ScanBegin(directory)
  \/ UploadBegin(F_clip)
  \/ \E i \in DOMAIN reqs :
       \/ ScanSelect(i)
       \/ ScanInsert(i)
       \/ UploadSelect(i)
       \/ UploadUpdate(i)
       \/ UploadInsert(i)

SpecIngest == Init /\ [][NextIngest]_vars

\* C6: under any interleaving of upload and scan requests the videos table
\* never holds two rows with the same file_path.
C6_FilePathStaysUnique ==
  \A a, b \in videos : a.file_path = b.file_path => a = b

\* an INSERT that followed a passed pre-check was rejected by the UNIQUE
\* constraint: another request had inserted the path in between
C6_Witness ==
  /\ lastResult.op = "addVideo"
  /\ ~lastResult.ok
  /\ Cardinality({v \in videos : v.file_path = lastResult.file_path}) = 1

\* --------------------------------- specification: the thumbnail generator
\* generateThumbnail called for some files, with the transcoder in any state.
GeneratorFiles == {F_clip, F_Matrix, F_xMatrixx}

MaxCalls == 3

\* how many generateThumbnail calls have been made, this one included
CallNumber == IF lastResult.op = "generateThumbnail" THEN lastResult.nth + 1 ELSE 1

\* a call of thumbnailGenerator.generateThumbnail(videoPath, filename)
GenerateThumbnailCall(filename, outcome) ==
  LET r == GenerateThumbnailWith(thumbDir, filename, outcome)
  IN /\ CallNumber <= MaxCalls
     /\ thumbDir' = r.dir
     /\ lastResult' = [op |-> "generateThumbnail", filename |-> filename,
                       outcome |-> outcome, ok |-> ~r.rejected, ret |-> r.name,
                       invoked |-> r.invoked, placeholder |-> r.placeholder,
                       nth |-> CallNumber]
     /\ UNCHANGED <<storeVars, now, uploadDir, reqs>>

NextGenerator ==
  \E filename \in GeneratorFiles, outcome \in TranscoderOutcomes :
    GenerateThumbnailCall(filename, outcome)

SpecGenerator == Init /\ [][NextGenerator]_vars

C18_SecondCallReuses ==
  [][(/\ lastResult.op = "generateThumbnail"
      /\ lastResult'.op = "generateThumbnail"
      /\ lastResult'.filename = lastResult.filename
      /\ lastResult'.outcome = lastResult.outcome) =>
       (/\ lastResult'.ret = lastResult.ret
        /\ ~lastResult'.invoked
        /\ ~lastResult'.placeholder)]_vars

\* the same for a transcoder that works: this part holds of the code
C18_HoldsInNormalMode ==
  [][(/\ lastResult.op = "generateThumbnail"
      /\ lastResult'.op = "generateThumbnail"
      /\ lastResult'.filename = lastResult.filename
      /\ lastResult.outcome = "end"
      /\ lastResult'.outcome = "end") =>
       (/\ lastResult'.ret = lastResult.ret
        /\ ~lastResult'.invoked
        /\ ~lastResult'.placeholder)]_vars

\* the second call returns the path of the first in every mode
C18_SamePathBothTimes ==
  [][(/\ lastResult.op = "generateThumbnail"
      /\ lastResult'.op = "generateThumbnail"
      /\ lastResult'.filename = lastResult.filename
      /\ lastResult'.outcome = lastResult.outcome) =>
       lastResult'.ret = lastResult.ret]_vars

\* --------------------------------------- specification: preview generation
S_preview_ == <<"p", "r", "e", "v", "i", "e", "w", "_">>
S_mp4 == <<".", "m", "p", "4">>

\* ThumbnailGenerator.getPreviewFilename
GetPreviewFilename(filename) == S_preview_ \o PathParseName(filename) \o S_mp4

\* the size below which a preview counts as corrupted
PreviewMinBytes == 1024

\* a preview file of the given size
Preview(size) == [size |-> size]

\* ThumbnailGenerator.getVideoDuration: 0 without the tool, else what ffprobe
\* gave (0 when ffprobe fails or reports no duration)
GetVideoDuration(tool, probed) == IF tool = "missing" THEN 0 ELSE probed

\* what the transcoder does with a preview: "end" with the output written,
\* "endNoFile" (end without an output), "error" (nothing written),
\* "errorPartial" (the error event after part of the output was written),
\* "throws"
PreviewOutcomes == {"end", "endNoFile", "error", "errorPartial", "throws"}

\* a generatePreview that returns whatever the transcoder wrote
GeneratePreviewUnchecked(dir, filename, tool, probed, outcome, size) ==
  LET name == GetPreviewFilename(filename)
  IN IF outcome \in {"end", "errorPartial"}
     THEN [dir |-> WriteFile(dir, name, Preview(size)), ret |-> name,
           invoked |-> TRUE, removed |-> FALSE]
     ELSE [dir |-> dir, ret |-> <<>>, invoked |-> TRUE, removed |-> FALSE]

\* ThumbnailGenerator.generatePreview: the directory afterwards, the name of
\* the file whose path is returned (<<>> for null), whether the transcoder
\* was invoked and whether an existing preview was removed first
GeneratePreviewWith(dir, filename, tool, probed, outcome, size) ==
  LET name == GetPreviewFilename(filename)
      videoDuration == GetVideoDuration(tool, probed)
      exists == name \in DOMAIN dir
      cleared == IF exists THEN RemoveFiles(dir, {name}) ELSE dir
  IN IF videoDuration = 0
     THEN [dir |-> dir, ret |-> <<>>, invoked |-> FALSE, removed |-> FALSE]
     ELSE IF exists /\ dir[name].size > PreviewMinBytes
     THEN [dir |-> dir, ret |-> name, invoked |-> FALSE, removed |-> FALSE]
     ELSE IF tool = "missing"
     THEN [dir |-> cleared, ret |-> <<>>, invoked |-> FALSE, removed |-> exists]
     ELSE IF outcome = "end"
     THEN IF size < PreviewMinBytes
          THEN [dir |-> cleared, ret |-> <<>>, invoked |-> TRUE,
                removed |-> exists]
          ELSE [dir |-> WriteFile(cleared, name, Preview(size)), ret |-> name,
                invoked |-> TRUE, removed |-> exists]
     ELSE IF outcome = "errorPartial"
     THEN [dir |-> WriteFile(cleared, name, Preview(size)), ret |-> <<>>,
           invoked |-> TRUE, removed |-> exists]
     ELSE [dir |-> cleared, ret |-> <<>>, invoked |-> TRUE, removed |-> exists]

PreviewFiles == {F_clip, F_Matrix}
PreviewSizes == {PreviewMinBytes - 1, PreviewMinBytes, PreviewMinBytes + 1}
ProbedDurations == {0, 20}

\* the size of the preview of filename in the directory, -1 when there is none
PreviewSize(dir, filename) ==
  IF GetPreviewFilename(filename) \in DOMAIN dir
  THEN dir[GetPreviewFilename(filename)].size ELSE -1

\* a call of thumbnailGenerator.generatePreview(videoPath, filename)
GeneratePreviewCall(filename, tool, probed, outcome, size) ==
  LET r == GeneratePreviewWith(thumbDir, filename, tool, probed, outcome, size)
  IN /\ thumbDir' = r.dir
     /\ lastResult' = [op |-> "generatePreview", filename |-> filename,
                       existing |-> PreviewSize(thumbDir, filename),
                       duration |-> GetVideoDuration(tool, probed),
                       outcome |-> outcome, size |-> size, ok |-> TRUE,
                       ret |-> r.ret, invoked |-> r.invoked,
                       removed |-> r.removed]
     /\ UNCHANGED <<storeVars, now, uploadDir, reqs>>

NextPreview ==
  \E filename \in PreviewFiles, tool \in {"missing", "present"},
     probed \in ProbedDurations, outcome \in PreviewOutcomes,
     size \in PreviewSizes :
    GeneratePreviewCall(filename, tool, probed, outcome, size)

SpecPreview == Init /\ [][NextPreview]_vars

\* the transcoder finished and wrote a preview smaller than 1024 bytes
ProducedTooSmall ==
  /\ lastResult.op = "generatePreview" /\ lastResult.invoked
  /\ lastResult.outcome = "end" /\ lastResult.size < PreviewMinBytes

\* the call found a preview smaller than 1024 bytes
FoundTooSmall ==
  /\ lastResult.op = "generatePreview"
  /\ lastResult.existing >= 0 /\ lastResult.existing < PreviewMinBytes

\* the returned path, if any, names a file of at least 1024 bytes
ReturnsNoSmallFile ==
  (lastResult.op = "generatePreview" /\ lastResult.ret # <<>>) =>
    /\ lastResult.ret \in DOMAIN thumbDir
    /\ thumbDir[lastResult.ret].size >= PreviewMinBytes

\* C17 (as stated): a produced preview smaller than 1024 bytes is deleted and
\* null is resolved; an existing preview smaller than 1024 bytes is removed
\* and regenerated; no returned path names a file smaller than 1024 bytes.
C17_SmallPreviewNeverKept ==
  /\ ProducedTooSmall =>
       /\ lastResult.ret = <<>>
       /\ PreviewSize(thumbDir, lastResult.filename) = -1
  /\ FoundTooSmall => (lastResult.removed /\ lastResult.invoked)
  /\ ReturnsNoSmallFile

\* C17 (amended): the existing small preview is removed and regenerated when
\* the duration of the video is known; with duration 0 the call resolves null
\* and leaves the file where it is.
C17_SmallPreviewNeverReturned ==
  /\ ProducedTooSmall =>
       /\ lastResult.ret = <<>>
       /\ PreviewSize(thumbDir, lastResult.filename) = -1
  /\ FoundTooSmall =>
       IF lastResult.duration # 0
       THEN lastResult.removed /\ lastResult.invoked
       ELSE /\ lastResult.ret = <<>>
            /\ PreviewSize(thumbDir, lastResult.filename) = lastResult.existing
  /\ ReturnsNoSmallFile

\* an existing small preview was replaced by a regenerated one of full size
C17_Witness ==
  /\ FoundTooSmall /\ lastResult.removed /\ lastResult.invoked
  /\ lastResult.ret = GetPreviewFilename(lastResult.filename)
  /\ PreviewSize(thumbDir, lastResult.filename) >= PreviewMinBytes

\* ------------------------------------ specification: the preview window
\* times are counted in tenths of a second, so that 10%, 20% and 30% of a
\* whole number of seconds are exact
Tenths == 10

\* the startTime and duration generatePreview hands to the transcoder for a
\* video of videoDuration seconds, in tenths of a second
PreviewWindow(videoDuration) ==
  LET d == videoDuration * Tenths
      start1 == IF videoDuration <= 30 THEN SetMin({2 * Tenths, videoDuration})
                ELSE IF videoDuration <= 60 THEN 15 * Tenths
                ELSE SetMax({30 * Tenths, 2 * videoDuration})
      length1 == IF videoDuration <= 30
                 THEN SetMin({10 * Tenths, d - start1 - 1 * Tenths})
                 ELSE IF videoDuration <= 60
                 THEN SetMin({15 * Tenths, d - start1 - 5 * Tenths})
                 ELSE SetMin({20 * Tenths,
                              SetMax({10 * Tenths, 3 * videoDuration})})
      start2 == IF videoDuration > 60
                THEN SetMin({start1, d - length1 - 5 * Tenths}) ELSE start1
      start == IF start2 < 0 THEN 0 ELSE start2
      length == IF length1 <= 0 \/ start + length1 > d
                THEN SetMax({1 * Tenths, d - start - 1 * Tenths})
                ELSE length1
  IN [start |-> start, length |-> length]

MaxDuration == 130

\* generatePreview computing the window for a video of d seconds
ComputeWindow(d) ==
  /\ lastResult' = [op |-> "previewWindow", ok |-> TRUE, d |-> d,
                    ret |-> PreviewWindow(d)]
  /\ UNCHANGED <<storeVars, now, fsVars, reqs>>

NextWindow == \E d \in 1..MaxDuration : ComputeWindow(d)

SpecWindow == Init /\ [][NextWindow]_vars

\* the bounds of the claim for a window of a video of d seconds
WindowWithinBounds(d, w) ==
  IF d <= 30
  THEN /\ w.start <= SetMin({2 * Tenths, d})
       /\ w.length <= 10 * Tenths
       /\ w.start + w.length <= (d - 1) * Tenths
  ELSE IF d <= 60
  THEN /\ w.start = 15 * Tenths
       /\ w.length <= 15 * Tenths
       /\ w.start + w.length <= (d - 5) * Tenths
  ELSE /\ w.start >= 30 * Tenths
       /\ w.length >= 10 * Tenths /\ w.length <= 20 * Tenths
       /\ w.start + w.length <= (d - 5) * Tenths

\* C16: for every integer duration d >= 1 the preview window satisfies:
\* d <= 30: start <= min(2, d/10), length <= 10, start+length <= d-1;
\* 30 < d <= 60: start = 15, length <= 15, start+length <= d-5;
\* d > 60: start >= 30, 10 <= length <= 20, start+length <= d-5.
C16_WindowWithinBounds ==
  lastResult.op = "previewWindow" =>
    WindowWithinBounds(lastResult.d, lastResult.ret)

\* the same from two seconds on: this part holds of the code
C16_HoldsFromTwoSeconds ==
  (lastResult.op = "previewWindow" /\ lastResult.d >= 2) =>
    WindowWithinBounds(lastResult.d, lastResult.ret)

\* the window of a one-second video ends after the video does
C16_OneSecondOverrun ==
  (lastResult.op = "previewWindow" /\ lastResult.d = 1) =>
    lastResult.ret.start + lastResult.ret.length > lastResult.d * Tenths

\* ------------------------------- specification: selection thumbnails
\* what one generateSingleThumbnail does: "end" with the frame written,
\* "endNoFile" (end without an output file), "error" (the promise rejects:
\* the error event or a throw)
ExtractionOutcomes == {"end", "endNoFile", "error"}

\* the candidate loop from candidate i on: times[i] is the timestamp of
\* candidate i in seconds, outcomes[i] what its extraction would do; st holds
\* the directory, the candidates pushed (ret), the timestamps at which an
\* extraction was run (attempts) and the candidates written by this call
RECURSIVE SelectionLoop(_, _, _, _, _, _)
SelectionLoop(st, filename, times, outcomes, i, breakOnFirst) ==
  IF i > Len(times) THEN st
  ELSE LET name == SelectionFilename(i, filename)
           exists == name \in DOMAIN st.dir
           wrote == ~exists /\ outcomes[i] = "end"
           dir == IF wrote
                  THEN WriteFile(st.dir, name,
                                 Image(filename, NumberToString(times[i])))
                  ELSE st.dir
           next == [dir |-> dir,
                    ret |-> IF name \in DOMAIN dir THEN Append(st.ret, i)
                            ELSE st.ret,
                    attempts |-> IF exists THEN st.attempts
                                 ELSE Append(st.attempts, times[i]),
                    produced |-> IF wrote THEN st.produced \cup {i}
                                 ELSE st.produced]
       IN IF ~exists /\ outcomes[i] = "error" /\ breakOnFirst /\ i = 1
          THEN next
          ELSE SelectionLoop(next, filename, times, outcomes, i + 1, breakOnFirst)

\* timestamps one second apart
EverySecond == <<1, 2, 3>>

\* fallbackTimes of generateFallbackThumbnails, in seconds
FallbackTimes == <<1, 3, 5>>

\* the state of the loop before its first candidate
LoopStart(dir) == [dir |-> dir, ret |-> <<>>, attempts |-> <<>>, produced |-> {}]

\* ThumbnailGenerator.generateFallbackThumbnails
GenerateFallbackThumbnails(dir, filename, count, outcomes) ==
  SelectionLoop(LoopStart(dir), filename,
                SubSeq(FallbackTimes, 1, SetMin({count, Len(FallbackTimes)})),
                outcomes, 1, TRUE)

\* ThumbnailGenerator.generateSelectionThumbnails with a transcoder that may
\* be missing or fail
GenerateSelectionThumbnailsWith(dir, filename, count, tool, videoExists, probed, outcomes) ==
  LET duration == GetVideoDuration(tool, probed)
      interval == duration \div (count + 1)
      finalInterval == SetMax({1, interval})
      adjustedCount == SetMin({count, duration \div finalInterval})
  IN IF tool = "missing" \/ ~videoExists THEN LoopStart(dir)
     ELSE IF duration = 0
     THEN GenerateFallbackThumbnails(dir, filename, SetMin({count, 3}), outcomes)
     ELSE IF interval <= 0
     THEN GenerateFallbackThumbnails(dir, filename,
                                     SetMin({count, SetMax({1, duration})}),
                                     outcomes)
     ELSE SelectionLoop(LoopStart(dir), filename,
                        [i \in 1..adjustedCount |-> finalInterval * i],
                        outcomes, 1, FALSE)

\* count = 6, the default of generateSelectionThumbnails and what the routes ask
RequestedCount == 6

SelectionDurations == {0, 2, 5, 14}

\* the extractions that may fail in one call
MaxFailing == 3

\* what the extractions of one call do: each of the first MaxFailing may end,
\* end without a file or fail, the later ones succeed
ExtractionScripts ==
  {[i \in 1..RequestedCount |-> IF i <= MaxFailing THEN s[i] ELSE "end"] :
     s \in [1..MaxFailing -> ExtractionOutcomes]}

\* the candidates of filename that are in the directory
CandidatesIn(dir, filename, count) ==
  {i \in 1..count : SelectionFilename(i, filename) \in DOMAIN dir}

\* a call of thumbnailGenerator.generateSelectionThumbnails(videoPath, filename)
GenerateSelectionCall(filename, tool, videoExists, probed, outcomes) ==
  LET r == GenerateSelectionThumbnailsWith(thumbDir, filename, RequestedCount,
                                           tool, videoExists, probed, outcomes)
      existed == CandidatesIn(thumbDir, filename, RequestedCount)
  IN /\ thumbDir' = r.dir
     /\ lastResult' = [op |-> "generateSelectionThumbnails",
                       filename |-> filename, count |-> RequestedCount,
                       tool |-> tool, videoExists |-> videoExists,
                       duration |-> GetVideoDuration(tool, probed),
                       existed |-> existed, ok |-> TRUE, ret |-> r.ret,
                       attempts |-> r.attempts, produced |-> r.produced,
                       firstFailed |-> (1 \notin existed /\ 1 \notin r.produced)]
     /\ UNCHANGED <<storeVars, now, uploadDir, reqs>>

NextSelection ==
  \E tool \in {"missing", "present"}, videoExists \in BOOLEAN,
     probed \in SelectionDurations, outcomes \in ExtractionScripts :
    GenerateSelectionCall(F_clip, tool, videoExists, probed, outcomes)

SpecSelection == Init /\ [][NextSelection]_vars

\* s is t with some elements left out
RECURSIVE IsSubSeq(_, _)
IsSubSeq(s, t) ==
  IF s = <<>> THEN TRUE
  ELSE IF t = <<>> THEN FALSE
  ELSE IF Head(s) = Head(t) THEN IsSubSeq(Tail(s), Tail(t))
  ELSE IsSubSeq(s, Tail(t))

\* a call for a stored video whose duration is zero or unknown
ZeroDurationCall ==
  /\ lastResult.op = "generateSelectionThumbnails"
  /\ lastResult.count = 6
  /\ lastResult.videoExists
  /\ lastResult.duration = 0

\* C14: generateSelectionThumbnails with count = 6 on a video of zero or
\* unknown duration attempts extraction only at 1s, 3s, 5s in that order,
\* returns at most 3 candidates, never rejects, keeps the candidates produced
\* before a later failure, and returns an empty list only if the tool is
\* unavailable or the very first fixed-timestamp extraction fails.
C14_FallbackContract ==
  ZeroDurationCall =>
    /\ lastResult.ok
    /\ IsSubSeq(lastResult.attempts, <<1, 3, 5>>)
    /\ Len(lastResult.ret) <= 3
    /\ lastResult.produced \subseteq Range(lastResult.ret)
    /\ lastResult.ret = <<>> =>
         (lastResult.tool = "missing" \/ lastResult.firstFailed)

\* two candidates were produced and kept although the third extraction failed
C14_Witness ==
  /\ ZeroDurationCall /\ lastResult.tool = "present"
  /\ lastResult.attempts = <<1, 3, 5>>
  /\ lastResult.produced = {1, 2}
  /\ lastResult.ret = <<1, 2>>

\* a call for a stored video of known duration with no candidate on disk yet
\* in which no extraction failed
KnownDurationCall ==
  /\ lastResult.op = "generateSelectionThumbnails"
  /\ lastResult.tool = "present" /\ lastResult.videoExists
  /\ lastResult.duration >= 1
  /\ lastResult.existed = {}
  /\ Cardinality(lastResult.produced) = Len(lastResult.attempts)

\* floor(d / (count + 1)) of the call
IntervalOf(r) == r.duration \div (r.count + 1)

\* C15: for known duration d >= 1 with floor(d/(count+1)) <= 0 the count is
\* recomputed as min(count, floor(d)) and extraction is at a 1-second
\* interval (timestamps 1, 2, ... up to the recomputed count); when
\* floor(d/(count+1)) >= 1 extraction is at interval*1 .. interval*count.
C15_ExtractionTimestamps ==
  KnownDurationCall =>
    lastResult.attempts =
      IF IntervalOf(lastResult) <= 0
      THEN [i \in 1..SetMin({lastResult.count, lastResult.duration}) |-> i]
      ELSE [i \in 1..lastResult.count |-> IntervalOf(lastResult) * i]

\* the second half, for videos of at least count + 1 seconds: this part
\* holds of the code
C15_HoldsForLongVideos ==
  (KnownDurationCall /\ IntervalOf(lastResult) >= 1) =>
    lastResult.attempts =
      [i \in 1..lastResult.count |-> IntervalOf(lastResult) * i]

\* what the code does for shorter videos: the fixed timestamps 1s, 3s, 5s,
\* at most three of them
C15_ShortVideosUseFixedTimestamps ==
  (KnownDurationCall /\ IntervalOf(lastResult) <= 0) =>
    lastResult.attempts =
      SubSeq(<<1, 3, 5>>, 1, SetMin({lastResult.count, lastResult.duration, 3}))

\* ----------------------- specification: uploads with an unreliable media tool
\* fluent-ffmpeg is loaded once per process: every request of a behaviour
\* sees the tool that the first one saw
ToolOfProcess(tool) == "tool" \in DOMAIN lastResult => lastResult.tool = tool

\* the defaults of getVideoMetadata
DefaultWidth == 1920
DefaultHeight == 1080

\* what ffprobe reports for an uploaded file: an error, or a format duration
\* and the size of the video stream (0 where it reports none)
MetadataProbes ==
  {[status |-> "error", duration |-> 0, width |-> 0, height |-> 0],
   [status |-> "ok", duration |-> 20, width |-> 1280, height |-> 720],
   [status |-> "ok", duration |-> 0, width |-> 0, height |-> 0]}

\* metadata that comes out as zeros when it cannot be read
GetVideoMetadataZeros(tool, probe) ==
  IF tool = "missing" \/ probe.status = "error"
  THEN [duration |-> 0, width |-> 0, height |-> 0]
  ELSE [duration |-> probe.duration, width |-> probe.width,
        height |-> probe.height]

\* FileScanner.getVideoMetadata
GetVideoMetadata(tool, probe) ==
  IF tool = "missing" \/ probe.status = "error"
  THEN [duration |-> 0, width |-> DefaultWidth, height |-> DefaultHeight]
  ELSE [duration |-> probe.duration,
        width |-> IF probe.width = 0 THEN DefaultWidth ELSE probe.width,
        height |-> IF probe.height = 0 THEN DefaultHeight ELSE probe.height]

\* a path in the thumbnails directory, <<>> for null
ThumbnailsPath(name) == IF name = <<>> THEN <<>> ELSE <<ThumbnailsDir, name>>

\* the row POST /api/upload hands to addVideo
MediaRow(id, filename, file_path, metadata, thumbnail_path, preview_path) ==
  [id |-> id, filename |-> filename, title |-> ExtractTitle(filename),
   file_path |-> file_path, duration |-> metadata.duration,
   width |-> metadata.width, height |-> metadata.height,
   thumbnail_path |-> thumbnail_path, preview_path |-> preview_path,
   created_at |-> now]

\* Video.updateVideo(id, {thumbnail_path, preview_path})
UpdatePaths(rows, id, thumbnail_path, preview_path) ==
  {IF v.id = id
   THEN [v EXCEPT !.thumbnail_path = thumbnail_path,
                  !.preview_path = preview_path]
   ELSE v : v \in rows}

\* POST /api/upload-preview in a process with or without the tool
UploadPreviewMedia(originalName, tool) ==
  LET filename == MulterFilename(originalName, uploadDir, 0)
  IN /\ ToolOfProcess(tool)
     /\ Cardinality(uploadDir) < MaxUploads
     /\ IF tool = "present"
        THEN /\ uploadDir' = uploadDir \cup {filename}
             /\ thumbDir' =
                  GenerateSelectionThumbnails(thumbDir, filename, SelectionCount)
        ELSE UNCHANGED <<uploadDir, thumbDir>>
     /\ lastResult' = [op |-> "uploadPreview", ok |-> tool = "present",
                       filename |-> filename, tool |-> tool]
     /\ UNCHANGED <<storeVars, now, reqs>>

\* POST /api/upload with the media tool in any state: probe is what ffprobe
\* tells getVideoMetadata, probed the duration getVideoDuration reads,
\* thumbOutcome and previewOutcome what the transcoder does
UploadMedia(originalName, selectedThumbnail, tool, probe, probed, thumbOutcome, previewOutcome, size) ==
  LET filename == MulterFilename(originalName, uploadDir, 0)
      filePath == <<UploadsDir, filename>>
      metadata == GetVideoMetadata(tool, probe)
      copied == selectedThumbnail # <<>> /\ selectedThumbnail \in DOMAIN thumbDir
      main == GetThumbnailFilename(filename)
      made == IF copied
              THEN [dir |-> WriteFile(thumbDir, main, thumbDir[selectedThumbnail]),
                    name |-> main, rejected |-> FALSE]
              ELSE GenerateThumbnailWith(thumbDir, filename,
                     IF tool = "missing" THEN "missing" ELSE thumbOutcome)
      preview == GeneratePreviewWith(made.dir, filename, tool, probed,
                                     previewOutcome, size)
      thumbnailPath == ThumbnailsPath(made.name)
      previewPath == ThumbnailsPath(preview.ret)
      existingVideo == SelectByFilePath(videos, filePath)
      removed == IF selectedThumbnail # <<>>
                 THEN CleanupTargets(preview.dir, filename) ELSE {}
  IN /\ ToolOfProcess(tool)
     /\ Cardinality(uploadDir) < MaxUploads
     /\ nextVideoId <= MaxVideos
     /\ uploadDir' = uploadDir \cup {filename}
     /\ IF made.rejected
        THEN /\ UNCHANGED <<videos, nextVideoId>>
             /\ thumbDir' = made.dir
        ELSE /\ IF existingVideo # {}
                THEN /\ videos' = UpdatePaths(videos,
                                    (CHOOSE v \in existingVideo : TRUE).id,
                                    thumbnailPath, previewPath)
                     /\ UNCHANGED nextVideoId
                ELSE /\ videos' = videos \cup
                          {MediaRow(nextVideoId, filename, filePath, metadata,
                                    thumbnailPath, previewPath)}
                     /\ nextVideoId' = nextVideoId + 1
             /\ thumbDir' = RemoveFiles(preview.dir, removed)
     /\ lastResult' = [op |-> "upload", ok |-> ~made.rejected,
                       filename |-> filename, tool |-> tool,
                       chosen |-> selectedThumbnail, copied |-> copied]
     /\ UNCHANGED <<tags, video_tags, nextTagId, now, reqs>>

NextUploadMedia ==
  \/ \E tool \in {"missing", "present"} : UploadPreviewMedia(F_clip, tool)
  \/ \E selectedThumbnail \in UploadChoices, tool \in {"missing", "present"},
        probe \in MetadataProbes, probed \in ProbedDurations,
        thumbOutcome \in TranscoderOutcomes \ {"missing"},
        previewOutcome \in PreviewOutcomes, size \in PreviewSizes :
       UploadMedia(F_clip, selectedThumbnail, tool, probe, probed,
                   thumbOutcome, previewOutcome, size)

SpecUploadMedia == Init /\ [][NextUploadMedia]_vars

\* the rows stored for the file of the last upload
UploadedRows ==
  {v \in videos : v.file_path = <<UploadsDir, lastResult.filename>>}

\* the placeholder of the last uploaded file
PlaceholderName ==
  ReplaceFirst(GetThumbnailFilename(lastResult.filename), S_jpg, S_svg)

\* C13: with the media tool unavailable an upload still succeeds and stores a
\* row with duration 0, width 1920, height 1080, a placeholder thumbnail path
\* and a null preview path; no media-tool failure makes the upload fail.
C13_UploadSurvivesMediaFailures ==
  lastResult.op = "upload" =>
    /\ lastResult.ok
    /\ lastResult.tool = "missing" =>
         /\ UploadedRows # {}
         /\ \A v \in UploadedRows :
              /\ v.duration = 0 /\ v.width = 1920 /\ v.height = 1080
              /\ v.thumbnail_path = <<ThumbnailsDir, PlaceholderName>>
              /\ v.preview_path = <<>>
         /\ PlaceholderName \in DOMAIN thumbDir
         /\ thumbDir[PlaceholderName] = Image(lastResult.filename, SvgMark)

\* an upload without the tool stored its row
C13_Witness ==
  /\ lastResult.op = "upload" /\ lastResult.ok
  /\ lastResult.tool = "missing"
  /\ \E v \in UploadedRows : v.thumbnail_path = <<ThumbnailsDir, PlaceholderName>>

\* ------------------------------------------------ tag names and their case
\* the tags whose name equals name ignoring case
\* (SELECT * FROM tags WHERE LOWER(name) = LOWER(?))
TagsNamedIgnoringCase(rows, name) ==
  {t \in rows : LowerStr(t.name) = LowerStr(name)}

\* C19: createTag(name, ...) fails with a duplicate-name error and inserts no
\* row whenever a tag whose name equals name ignoring case already exists
\* (hence no two tags ever have names that are equal ignoring case).
C19_CreateTagRejectsSameNameIgnoringCase ==
  [][(/\ lastResult'.op = "createTag"
      /\ TagsNamedIgnoringCase(tags, lastResult'.name) # {}) =>
       (~lastResult'.ok /\ tags' = tags)]_vars

\* the same for a tag whose name is exactly name: this part holds of the code
C19_HoldsForSameSpelling ==
  [][(/\ lastResult'.op = "createTag"
      /\ \E t \in tags : t.name = lastResult'.name) =>
       (~lastResult'.ok /\ tags' = tags)]_vars

\* the consequence the claim draws: names are unique ignoring case
C19_NamesUniqueIgnoringCase ==
  \A t1, t2 \in tags : LowerStr(t1.name) = LowerStr(t2.name) => t1.id = t2.id

\* ------------------------------------- specification: find-or-create a tag
\* Calls of Tag.findOrCreateTag run concurrently (one per request, each on
\* its own connection) and can interleave at the await between the lookup
\* and the insert.  reqs holds the calls: pc is "lookup", "insert" or "done".

\* Tag.getTagByName: the row db.get yields, the first in rowid order
GetTagByName(rows, name) ==
  LET found == TagsNamedIgnoringCase(rows, name)
  IN CHOOSE t \in found : \A u \in found : t.id <= u.id

\* a request calls findOrCreateTag(name)
FindOrCreateBegin(name) ==
  /\ Len(reqs) < MaxReqs
  /\ reqs' = Append(reqs, [kind |-> "findOrCreateTag", name |-> name,
                           pc |-> "lookup", ok |-> TRUE, ret |-> NULL])
  /\ lastResult' = [op |-> "findOrCreateTag", ok |-> TRUE, ret |-> NULL]
  /\ UNCHANGED <<storeVars, now, fsVars>>

\* await this.getTagByName(name)
FindOrCreateLookup(i) ==
  /\ reqs[i].pc = "lookup"
  /\ reqs' = [reqs EXCEPT ![i] =
                IF TagsNamedIgnoringCase(tags, reqs[i].name) # {}
                THEN [@ EXCEPT !.pc = "done",
                               !.ret = GetTagByName(tags, reqs[i].name).id]
                ELSE [@ EXCEPT !.pc = "insert"]]
  /\ lastResult' = [op |-> "getTagByName", ok |-> TRUE, ret |-> NULL]
  /\ UNCHANGED <<storeVars, now, fsVars>>

\* await this.createTag(name, color)
FindOrCreateInsert(i) ==
  /\ reqs[i].pc = "insert"
  /\ nextTagId <= MaxTags
  /\ IF TagNameUnique(tags, reqs[i].name)
     THEN /\ tags' = tags \cup
                {[id |-> nextTagId, name |-> reqs[i].name, parent_id |-> NULL,
                  level |-> 1]}
          /\ nextTagId' = nextTagId + 1
          /\ reqs' = [reqs EXCEPT ![i] = [@ EXCEPT !.pc = "done",
                                                   !.ret = nextTagId]]
          /\ lastResult' = [op |-> "createTag", name |-> reqs[i].name,
                            ok |-> TRUE, ret |-> nextTagId]
     ELSE /\ UNCHANGED <<tags, nextTagId>>
          /\ reqs' = [reqs EXCEPT ![i] = [@ EXCEPT !.pc = "done",
                                                   !.ok = FALSE]]
          /\ lastResult' = [op |-> "createTag", name |-> reqs[i].name,
                            ok |-> FALSE, ret |-> "already exists"]
  /\ UNCHANGED <<videos, video_tags, nextVideoId, now, fsVars>>

NextFindOrCreate ==
  \/ \E n \in CasedTagNames : FindOrCreateBegin(n)
  \/ \E i \in 1..MaxReqs : i <= Len(reqs) /\ FindOrCreateLookup(i)
  \/ \E i \in 1..MaxReqs : i <= Len(reqs) /\ FindOrCreateInsert(i)

SpecFindOrCreate == Init /\ [][NextFindOrCreate]_vars

\* the calls that have returned
DoneCalls == {i \in DOMAIN reqs : reqs[i].pc = "done"}

\* C20: findOrCreateTag never rejects with a duplicate-name error, also when
\* two calls for the same not-yet-existing name interleave between the
\* lookup and the insert; both calls resolve to the id of the same tag.
C20_FindOrCreateNeverRejects ==
  /\ \A i \in DoneCalls : reqs[i].ok
  /\ \A i, j \in DoneCalls :
       reqs[i].name = reqs[j].name => reqs[i].ret = reqs[j].ret

\* ------------------------------------------- specification: the HTTP routes
\* Each step is one request handled from its first line to its response.
\* lastResult holds the response (status, body) and how many store handles
\* the handler opened (new Video(), new Tag()) and closed.

\* the methods class Video defines
VideoMethods ==
  {"getAllVideos", "getVideoById", "addVideo", "updateVideo", "deleteVideo",
   "searchByTag", "searchByTags", "searchByTitle", "getAutoCompleteSuggestions",
   "enhancedSearchByTitle", "addTagToVideo", "removeTagFromVideo", "close"}

\* a query parameter that is meant to carry a JSON list: absent, text that
\* JSON.parse rejects, JSON that is no list (5, null, an object), or a list
ListParams ==
  {[kind |-> "absent", list |-> <<>>], [kind |-> "malformed", list |-> <<>>],
   [kind |-> "notList", list |-> <<>>]}
    \cup {[kind |-> "list", list |-> l] : l \in SeqsOf(TagNames, 0, MaxNames)}

\* the list parameters of at most one element
ShortListParams == {p \in ListParams : Len(p.list) <= 1}

\* the response of a handler
Response(op, status, body, opened, closed) ==
  [op |-> op, ok |-> status = 200, status |-> status, body |-> body,
   opened |-> opened, closed |-> closed]

\* GET /api/videos; dbFails: the query reports an error
GetVideosRoute(dbFails) ==
  /\ lastResult' = IF dbFails THEN Response("getVideos", 500, {}, 1, 0)
                   ELSE Response("getVideos", 200, VideoIds, 1, 1)
  /\ UNCHANGED <<storeVars, restVars>>

\* the response of GET /api/videos/search?type=..&q=..&tags=..
SearchResponse(type, q, tagsParam, dbFails) ==
  IF type = "tags" /\ tagsParam.kind # "absent"
  THEN IF tagsParam.kind \in {"malformed", "notList"}
       THEN Response("search", 500, {}, 1, 0)
       ELSE IF dbFails /\ Len(tagsParam.list) # 0
       THEN Response("search", 500, {}, 1, 0)
       ELSE Response("search", 200, SearchByTagsRows(tagsParam.list), 1, 1)
  ELSE IF type = "tag" /\ q # <<>>
  THEN IF dbFails THEN Response("search", 500, {}, 1, 0)
       ELSE Response("search", 200, SearchByTagsRows(<<q>>), 1, 1)
  ELSE IF q # <<>>
  THEN IF dbFails THEN Response("search", 500, {}, 1, 0)
       ELSE Response("search", 200,
                     {v.id : v \in {x \in videos :
                                      TitleWhere(x.title, x.filename, q)}}, 1, 1)
  ELSE Response("search", 400, {}, 1, 0)

\* GET /api/videos/search
SearchRoute(type, q, tagsParam, dbFails) ==
  /\ lastResult' = [type |-> type, q |-> q, tagsParam |-> tagsParam] @@
                     SearchResponse(type, q, tagsParam, dbFails)
  /\ UNCHANGED <<storeVars, restVars>>

\* GET /api/videos/filter: the arguments are evaluated (JSON.parse may throw)
\* and video.getFilteredVideos is called, which class Video does not define
FilterRoute(tagsParam, resolutionParam, durationGiven, dateGiven) ==
  /\ lastResult' =
       [tagsParam |-> tagsParam, resolutionParam |-> resolutionParam,
        durationGiven |-> durationGiven, dateGiven |-> dateGiven,
        error |-> IF \/ tagsParam.kind = "malformed"
                     \/ resolutionParam.kind = "malformed"
                  THEN "SyntaxError"
                  ELSE IF "getFilteredVideos" \notin VideoMethods
                  THEN "TypeError" ELSE "none"] @@
         Response("filter", 500, {}, 1, 0)
  /\ UNCHANGED <<storeVars, restVars>>

\* the INSERT OR IGNORE INTO video_tags of Video.addTagToVideo as the route
\* reaches it
AddTagRows(rows, vid, tid) == InsertOrIgnore(rows, vid, tid)

\* POST /api/videos/:id/tags with body {tagName}; tagName <<>> when absent
AddTagRoute(id, tagName, dbFails) ==
  LET found == TagsNamedIgnoringCase(tags, tagName)
      tagId == IF found # {} THEN GetTagByName(tags, tagName).id ELSE nextTagId
  IN IF tagName = <<>>
     THEN /\ lastResult' = [video_id |-> id, tagName |-> tagName] @@
                             Response("addTagRoute", 400, {}, 0, 0)
          /\ UNCHANGED <<storeVars, restVars>>
     ELSE IF dbFails
     THEN /\ lastResult' = [video_id |-> id, tagName |-> tagName] @@
                             Response("addTagRoute", 500, {}, 2, 0)
          /\ UNCHANGED <<storeVars, restVars>>
     ELSE /\ BagCardinality(video_tags) < MaxLinks
          /\ found = {} => nextTagId <= MaxTags
          /\ tags' = IF found # {} THEN tags
                     ELSE tags \cup {[id |-> nextTagId, name |-> tagName,
                                      parent_id |-> NULL, level |-> 1]}
          /\ nextTagId' = IF found # {} THEN nextTagId ELSE nextTagId + 1
          /\ video_tags' = AddTagRows(video_tags, id, tagId)
          /\ lastResult' = [video_id |-> id, tagName |-> tagName,
                            tagId |-> tagId] @@
                             Response("addTagRoute", 200, {}, 2, 2)
          /\ UNCHANGED <<videos, nextVideoId, restVars>>

NextRoutes ==
  \/ /\ nextVideoId <= MaxVideos
     /\ AddVideo(F_a, F_a, <<LibDir, nextVideoId>>, NULL)
  \/ \E dbFails \in BOOLEAN : GetVideosRoute(dbFails)
  \/ \E type \in {"tags", "tag", "title"}, q \in {<<>>} \cup TagNames,
        tagsParam \in ListParams, dbFails \in BOOLEAN :
       SearchRoute(type, q, tagsParam, dbFails)
  \/ \E tagsParam \in ShortListParams, resolutionParam \in ShortListParams,
        durationGiven \in BOOLEAN, dateGiven \in BOOLEAN :
       FilterRoute(tagsParam, resolutionParam, durationGiven, dateGiven)
  \/ \E id \in 1..MaxVideos, tagName \in {<<>>} \cup TagNames,
        dbFails \in BOOLEAN : AddTagRoute(id, tagName, dbFails)

SpecRoutes == Init /\ [][NextRoutes]_vars

\* a list parameter that selects nothing: absent or the empty list
NoPredicate(param) ==
  param.kind = "absent" \/ (param.kind = "list" /\ Len(param.list) = 0)

\* C21: a composite filter request in which every predicate is absent (no
\* tags, empty resolution set, no duration range, no date filter) returns the
\* same videos as the unfiltered listing (omitting a predicate never narrows
\* the result).
C21_EmptyFilterIsListing ==
  (/\ lastResult.op = "filter"
   /\ NoPredicate(lastResult.tagsParam)
   /\ NoPredicate(lastResult.resolutionParam)
   /\ ~lastResult.durationGiven /\ ~lastResult.dateGiven) =>
    /\ lastResult.status = 200
    /\ lastResult.body = VideoIds

\* a request whose tags or resolution parameter is no JSON list
BadListRequest ==
  \/ /\ lastResult.op = "search" /\ lastResult.type = "tags"
     /\ lastResult.tagsParam.kind \in {"malformed", "notList"}
  \/ /\ lastResult.op = "filter"
     /\ \/ lastResult.tagsParam.kind \in {"malformed", "notList"}
        \/ lastResult.resolutionParam.kind \in {"malformed", "notList"}

\* C22: a search or filter request whose tags or resolution parameter is not
\* parseable as a JSON list is answered with a 4xx status, not a 5xx status.
C22_BadListIsClientError ==
  BadListRequest => (lastResult.status >= 400 /\ lastResult.status <= 499)

\* a search without any usable parameter is a client error: this holds
C22_HoldsForMissingQuery ==
  (/\ lastResult.op = "search" /\ lastResult.q = <<>>
   /\ (lastResult.type # "tags" \/ lastResult.tagsParam.kind = "absent")) =>
    lastResult.status = 400

\* C23: a request to add a tag to a video id that does not exist is answered
\* with a 404-equivalent and creates no association row; every video_tags row
\* references an existing video.
C23_MissingVideoIs404 ==
  /\ (/\ lastResult.op = "addTagRoute" /\ lastResult.tagName # <<>>
      /\ lastResult.video_id \notin VideoIds) =>
       /\ lastResult.status = 404
       /\ \A r \in DOMAIN video_tags : r.video_id # lastResult.video_id
  /\ \A r \in DOMAIN video_tags : r.video_id \in VideoIds

\* for a video that exists the route links the tag: this part holds
C23_HoldsForExistingVideo ==
  (/\ lastResult.op = "addTagRoute" /\ lastResult.status = 200
   /\ lastResult.video_id \in VideoIds) =>
    BagIn(Link(lastResult.video_id, lastResult.tagId), video_tags)

\* C26: every store handle opened by a request handler is closed before the
\* handler finishes, on the success path and on every error path.
C26_HandlesClosed ==
  "opened" \in DOMAIN lastResult => lastResult.closed = lastResult.opened

\* on the success path every handle is closed: this part holds
C26_HoldsOnSuccess ==
  ("opened" \in DOMAIN lastResult /\ lastResult.status = 200) =>
    lastResult.closed = lastResult.opened

\* ------------------------------------- specification: a video with its tags
\* Tags carry a colour here; a colour of <<>> stands for NULL (POST /api/tags
\* and PUT /api/tags/:id store a null colour as it is sent).

\* GROUP_CONCAT(X): the values that are not NULL, joined by commas
RECURSIVE GroupConcat(_)
GroupConcat(values) ==
  IF values = <<>> THEN <<>>
  ELSE LET rest == GroupConcat(Tail(values))
       IN IF Head(values) = <<>> THEN rest
          ELSE IF rest = <<>> /\ \A i \in 2..Len(values) : values[i] = <<>>
          THEN Head(values)
          ELSE Head(values) \o <<",">> \o rest

\* row.x ? row.x.split(',') : []
RECURSIVE SplitCommas(_)
SplitCommas(s) ==
  IF s = <<>> THEN <<>>
  ELSE LET commas == {i \in 1..Len(s) : s[i] = ","}
       IN IF commas = {} THEN <<s>>
          ELSE LET c == SetMin(commas)
                   rest == SubSeq(s, c + 1, Len(s))
               IN <<SubSeq(s, 1, c - 1)>> \o
                    (IF rest = <<>> THEN <<rest>> ELSE SplitCommas(rest))

\* parseInt of a string of digits
RECURSIVE ParseInt(_)
ParseInt(s) ==
  IF s = <<>> THEN 0
  ELSE 10 * ParseInt(SubSeq(s, 1, Len(s) - 1))
         + (CHOOSE d \in 0..9 : DigitChars[d + 1] = s[Len(s)])

TagById(id) == CHOOSE t \in tags : t.id = id

\* the tags LEFT JOINed to video id: the video_tags rows of the video whose
\* tag exists
AttachedTags(id) ==
  {t.id : t \in {x \in tags : BagIn(Link(id, x.id), video_tags)}}

\* Video.getVideoById(id) for a video that exists: order is the order in
\* which the joined rows reach the three GROUP_CONCAT aggregates
GetVideoById(id, order) ==
  /\ lastResult' =
       [op |-> "getVideoById", id |-> id, ok |-> TRUE, attached |-> order,
        tags |-> SplitCommas(GroupConcat(
                   [i \in DOMAIN order |-> TagById(order[i]).name])),
        tag_colors |-> SplitCommas(GroupConcat(
                   [i \in DOMAIN order |-> TagById(order[i]).color])),
        tag_ids |-> LET ids == SplitCommas(GroupConcat(
                          [i \in DOMAIN order |-> NumberToString(order[i])]))
                    IN [i \in DOMAIN ids |-> ParseInt(ids[i])]]
  /\ UNCHANGED <<storeVars, restVars>>

\* POST /api/tags {name, color}: Tag.createTag with the colour sent
CreateTagColored(name, color) ==
  /\ nextTagId <= MaxTags
  /\ IF TagNameUnique(tags, name)
     THEN /\ tags' = tags \cup
                {[id |-> nextTagId, name |-> name, parent_id |-> NULL,
                  level |-> 1, color |-> color]}
          /\ nextTagId' = nextTagId + 1
          /\ lastResult' = [op |-> "createTag", name |-> name, ok |-> TRUE,
                            ret |-> nextTagId]
     ELSE /\ UNCHANGED <<tags, nextTagId>>
          /\ lastResult' = [op |-> "createTag", name |-> name, ok |-> FALSE,
                            ret |-> "already exists"]
  /\ UNCHANGED <<videos, video_tags, nextVideoId, restVars>>

\* Tag.updateTag(id, name, color): UPDATE tags SET name = ?, color = ?
UpdateTag(id, name, color) ==
  /\ IF \A t \in tags : t.id = id \/ t.name # name
     THEN /\ tags' = {IF t.id = id
                      THEN [t EXCEPT !.name = name, !.color = color]
                      ELSE t : t \in tags}
          /\ lastResult' = [op |-> "updateTag", id |-> id, ok |-> TRUE,
                            ret |-> (id \in TagIds)]
     ELSE /\ UNCHANGED tags
          /\ lastResult' = [op |-> "updateTag", id |-> id, ok |-> FALSE,
                            ret |-> "SQLITE_CONSTRAINT"]
  /\ UNCHANGED <<videos, video_tags, nextVideoId, nextTagId, restVars>>

\* tag names as the tag dialog accepts them: any text that is not empty
FreeTagNames == TagNames \cup {<<"A", ",", "B">>}

\* colours: a colour code, or NULL
TagColors == {<<"#", "1">>, <<>>}

NextVideoTags ==
  \/ /\ nextVideoId <= MaxVideos
     /\ AddVideo(F_a, F_a, <<LibDir, nextVideoId>>, NULL)
  \/ \E n \in FreeTagNames, c \in TagColors : CreateTagColored(n, c)
  \/ \E id \in TagIds, n \in FreeTagNames, c \in TagColors : UpdateTag(id, n, c)
  \/ \E v \in VideoIds, t \in TagIds : AddTagToVideo(v, t)
  \/ \E id \in VideoIds : \E order \in Orders(AttachedTags(id)) :
       GetVideoById(id, order)

SpecVideoTags == Init /\ [][NextVideoTags]_vars

\* C24: for every video returned by getVideoById (getAllVideos builds its
\* rows the same way), whatever tags are attached, tags, tag_colors and
\* tag_ids have the same length, the number of attached tags, and position i
\* of each list describes the same tag.
C24_TagListsAligned ==
  lastResult.op = "getVideoById" =>
    /\ Len(lastResult.tags) = Len(lastResult.attached)
    /\ Len(lastResult.tag_colors) = Len(lastResult.attached)
    /\ Len(lastResult.tag_ids) = Len(lastResult.attached)
    /\ \A i \in DOMAIN lastResult.attached :
         \E t \in tags : /\ t.id = lastResult.tag_ids[i]
                         /\ t.name = lastResult.tags[i]
                         /\ t.color = lastResult.tag_colors[i]

\* every attached tag has a colour and a name without a comma
PlainTagsAttached ==
  \A i \in DOMAIN lastResult.attached :
    /\ TagById(lastResult.attached[i]).color # <<>>
    /\ "," \notin Range(TagById(lastResult.attached[i]).name)

\* the same for such tags: this part holds of the code
C24_HoldsForPlainTags ==
  (lastResult.op = "getVideoById" /\ PlainTagsAttached) =>
    /\ Len(lastResult.tags) = Len(lastResult.attached)
    /\ Len(lastResult.tag_colors) = Len(lastResult.attached)
    /\ Len(lastResult.tag_ids) = Len(lastResult.attached)
    /\ \A i \in DOMAIN lastResult.attached :
         \E t \in tags : /\ t.id = lastResult.tag_ids[i]
                         /\ t.name = lastResult.tags[i]
                         /\ t.color = lastResult.tag_colors[i]

\* ------------------------------------ specification: scanning a directory
\* POST /api/scan as one request: fileScanner.scanDirectory walks the
\* directory, then the route ingests the files found, one after the other.
\* A directory is the sequence of its entries in the order readdir lists
\* them; an entry has a name, the outcome of fs.stat on it ("file", "dir",
\* or "error" for a dangling link or an entry that may not be examined)
\* and, for a directory, its own entries and whether readdir succeeds.
SupportedFormats ==
  {S_mp4, <<".", "m", "k", "v">>, <<".", "a", "v", "i">>, <<".", "m", "o", "v">>,
   <<".", "w", "m", "v">>, <<".", "f", "l", "v">>, <<".", "w", "e", "b", "m">>}

FileEntry(name) == [name |-> name, stat |-> "file", items |-> <<>>, readable |-> TRUE]
BrokenEntry(name) == [name |-> name, stat |-> "error", items |-> <<>>, readable |-> TRUE]
DirEntry(name, items, readable) == [name |-> name, stat |-> "dir", items |-> items, readable |-> readable]

\* a walk that skips an entry it cannot examine and goes on with the next
RECURSIVE ScanSkippingFailures(_, _, _, _)
ScanSkippingFailures(directory, items, readable, files) ==
  IF ~readable \/ items = <<>> THEN files
  ELSE LET item == Head(items)
           rest == Tail(items)
       IN IF item.stat = "error"
          THEN ScanSkippingFailures(directory, rest, readable, files)
          ELSE IF item.stat = "dir"
          THEN ScanSkippingFailures(directory, rest, readable,
                 ScanSkippingFailures(Append(directory, item.name), item.items,
                                      item.readable, files))
          ELSE IF LowerStr(PathParseExt(item.name)) \in SupportedFormats
          THEN ScanSkippingFailures(directory, rest, readable,
                                    Append(files, <<directory, item.name>>))
          ELSE ScanSkippingFailures(directory, rest, readable, files)

\* FileScanner._scanRecursive: one try block around readdir and the loop
\* over the entries.  A failing readdir or a failing fs.stat leaves the
\* function through its catch, which logs and returns: the entries after the
\* failing one are not visited.  A failure of getVideoMetadata has a catch of
\* its own and the file is pushed all the same.
RECURSIVE ScanRecursive(_, _, _, _)
ScanRecursive(directory, items, readable, files) ==
  IF ~readable \/ items = <<>> THEN files
  ELSE LET item == Head(items)
           rest == Tail(items)
       IN IF item.stat = "error" THEN files
          ELSE IF item.stat = "dir"
          THEN ScanRecursive(directory, rest, readable,
                 ScanRecursive(Append(directory, item.name), item.items,
                               item.readable, files))
          ELSE IF LowerStr(PathParseExt(item.name)) \in SupportedFormats
          THEN ScanRecursive(directory, rest, readable,
                             Append(files, <<directory, item.name>>))
          ELSE ScanRecursive(directory, rest, readable, files)

\* POST /api/scan, the loop over the files found: a known file is skipped;
\* for a new one the thumbnail is generated and the row inserted; a
\* rejection (here of video.addVideo, for the paths in failing) is caught
\* and the loop goes on with the next file.
RECURSIVE ScanIngest(_, _, _)
ScanIngest(files, failing, st) ==
  IF files = <<>> THEN st
  ELSE LET file_path == Head(files)
           filename == file_path[2]
           generated == [st EXCEPT !.thumbDir =
                           GenerateThumbnail(@, filename, TRUE).dir]
       IN IF SelectByFilePath(st.videos, file_path) # {}
          THEN ScanIngest(Tail(files), failing, st)
          ELSE IF file_path \in failing
          THEN ScanIngest(Tail(files), failing, generated)
          ELSE ScanIngest(Tail(files), failing,
                 [generated EXCEPT
                    !.videos = @ \cup
                      {VideoRow(st.nextVideoId, filename, ExtractTitle(filename),
                                file_path,
                                <<ThumbnailsDir, GetThumbnailFilename(filename)>>)},
                    !.nextVideoId = @ + 1,
                    !.processed = @ + 1])

\* POST /api/scan with a directory given
ScanRoute(directory, items, failing) ==
  LET files == ScanRecursive(<<directory>>, items, TRUE, <<>>)
      done == ScanIngest(files, failing,
                         [videos |-> videos, nextVideoId |-> nextVideoId,
                          thumbDir |-> thumbDir, processed |-> 0])
  IN /\ done.nextVideoId <= MaxVideos + 1
     /\ videos' = done.videos
     /\ nextVideoId' = done.nextVideoId
     /\ thumbDir' = done.thumbDir
     /\ lastResult' = [op |-> "scan", ok |-> TRUE, status |-> 200,
                       directory |-> directory, items |-> items,
                       failing |-> failing, found |-> files,
                       totalFound |-> Len(files), processed |-> done.processed]
     /\ UNCHANGED <<tags, video_tags, nextTagId, now, uploadDir, reqs>>

\* the scanned trees: at most two entries in the directory, one of them
\* possibly a subdirectory of at most two entries
F_a_mp4 == <<"a">> \o S_mp4
F_b_MP4 == <<"b", ".", "M", "P", "4">>
F_c_mp4 == <<"c">> \o S_mp4
F_n_txt == <<"n", ".", "t", "x", "t">>
F_x == <<"x">>
F_d == <<"d">>
ScannedDir == <<"l", "i", "b">>

InjectiveSeqs(S, lo, hi) ==
  {s \in SeqsOf(S, lo, hi) : \A i, j \in DOMAIN s : i # j => s[i].name # s[j].name}

SubListings == InjectiveSeqs({FileEntry(F_c_mp4), BrokenEntry(F_x)}, 0, 2)

RootEntries ==
  {FileEntry(F_a_mp4), FileEntry(F_b_MP4), FileEntry(F_n_txt), BrokenEntry(F_x)}
    \cup {DirEntry(F_d, l, TRUE) : l \in SubListings}
    \cup {DirEntry(F_d, <<>>, FALSE)}

RootListings == InjectiveSeqs(RootEntries, 1, 2)

\* the paths of the video files of these trees
ScanPaths ==
  {<<<<ScannedDir>>, F_a_mp4>>, <<<<ScannedDir>>, F_b_MP4>>,
   <<<<ScannedDir, F_d>>, F_c_mp4>>}

\* the files whose ingestion fails: none, or one of them
FailingSets == {{}} \cup {{p} : p \in ScanPaths}

NextScanTree ==
  \E items \in RootListings : \E failing \in FailingSets :
       ScanRoute(ScannedDir, items, failing)

SpecScanTree == Init /\ [][NextScanTree]_vars

\* the files under a tree that fs.stat can examine, in directories that
\* readdir can list, with a supported extension
SupportedUnder(directory, items) ==
  Range(ScanSkippingFailures(directory, items, TRUE, <<>>))

\* some entry of the tree cannot be examined
RECURSIVE HasStatFailure(_)
HasStatFailure(items) ==
  /\ items # <<>>
  /\ \/ Head(items).stat = "error"
     \/ HasStatFailure(Head(items).items)
     \/ HasStatFailure(Tail(items))

\* C25: during a directory scan, a failure while examining or ingesting one
\* file does not prevent any other supported video file under the scanned
\* directory from being found and ingested; the scan always completes and
\* reports totalFound and processed.
C25_ScanReachesEveryFile ==
  lastResult.op = "scan" =>
    /\ lastResult.status = 200
    /\ lastResult.totalFound = Len(lastResult.found)
    /\ \A p \in SupportedUnder(<<lastResult.directory>>, lastResult.items) :
         /\ p \in Range(lastResult.found)
         /\ p \notin lastResult.failing => SelectByFilePath(videos, p) # {}

\* a failure while ingesting a file the walk has found does not keep the
\* other files found from being ingested, and a tree whose entries can all
\* be examined is found completely: this part holds of the code
C25_HoldsForIngestFailures ==
  lastResult.op = "scan" =>
    /\ lastResult.status = 200
    /\ \A i \in DOMAIN lastResult.found :
         lastResult.found[i] \notin lastResult.failing
           => SelectByFilePath(videos, lastResult.found[i]) # {}
    /\ ~HasStatFailure(lastResult.items) =>
         Range(lastResult.found)
           = SupportedUnder(<<lastResult.directory>>, lastResult.items)

\* ------------------------------- specification: the extraction timestamps
\* generateSelectionThumbnails for stored videos of every duration from one
\* second on and every count from one on, with a transcoder whose
\* extractions all succeed.  The candidates of a call are removed by
\* cleanupUnusedThumbnails before the next call is made.
MaxSeconds == 20
MaxCount == 6

AllEnd == [i \in 1..MaxCount |-> "end"]

\* a call of thumbnailGenerator.generateSelectionThumbnails(videoPath, filename, count)
SelectionTimestampsCall(filename, count, probed) ==
  LET r == GenerateSelectionThumbnailsWith(thumbDir, filename, count,
                                           "present", TRUE, probed, AllEnd)
  IN /\ CandidatesIn(thumbDir, filename, MaxCount) = {}
     /\ thumbDir' = r.dir
     /\ lastResult' = [op |-> "selectionTimestamps", filename |-> filename,
                       count |-> count, ok |-> TRUE, ret |-> r.ret,
                       duration |-> GetVideoDuration("present", probed),
                       attempts |-> r.attempts]
     /\ UNCHANGED <<storeVars, now, uploadDir, reqs>>

\* cleanupUnusedThumbnails(filename, selectedThumbnail)
CleanupUnusedThumbnails(filename) ==
  LET removed == CleanupTargets(thumbDir, filename)
  IN /\ thumbDir' = RemoveFiles(thumbDir, removed)
     /\ lastResult' = [op |-> "cleanupUnusedThumbnails", filename |-> filename,
                       ok |-> TRUE, removed |-> removed]
     /\ UNCHANGED <<storeVars, now, uploadDir, reqs>>

NextTimestamps ==
  \/ \E count \in 1..MaxCount, probed \in 1..MaxSeconds :
       SelectionTimestampsCall(F_clip, count, probed)
  \/ CleanupUnusedThumbnails(F_clip)

SpecTimestamps == Init /\ [][NextTimestamps]_vars

\* C27: for every video of known duration d >= 1 and every requested
\* count >= 1, every timestamp at which generateSelectionThumbnails attempts
\* an extraction is strictly less than d, on the evenly spaced path and on
\* the short-video path alike.
C27_TimestampsBeforeEnd ==
  (lastResult.op = "selectionTimestamps" /\ lastResult.duration >= 1) =>
    \A i \in DOMAIN lastResult.attempts :
      lastResult.attempts[i] < lastResult.duration

\* on the evenly spaced path, floor(d / (count + 1)) >= 1: this part holds
\* of the code
C27_HoldsOnEvenlySpacedPath ==
  (lastResult.op = "selectionTimestamps" /\ IntervalOf(lastResult) >= 1) =>
    \A i \in DOMAIN lastResult.attempts :
      lastResult.attempts[i] < lastResult.duration

\* --------------------------- specification: cleanup with several videos
\* Selection candidates of three stored files are in the thumbnail
\* directory at the same time: clip, myclip (its base name contains clip)
\* and zed.  Candidates are generated for a file and cleaned up for a file.
F_myclip == <<"m", "y", "c", "l", "i", "p">> \o Ext
F_zed == <<"z", "e", "d">> \o Ext
CleanupFiles == {F_clip, F_myclip, F_zed}
MaxCandidates == 3

\* thumbnailGenerator.generateSelectionThumbnails(videoPath, filename, count)
GenerateCandidates(filename, count) ==
  /\ thumbDir' = GenerateSelectionThumbnails(thumbDir, filename, count)
  /\ lastResult' = [op |-> "generateSelectionThumbnails", filename |-> filename,
                    ok |-> TRUE, ret |-> count]
  /\ UNCHANGED <<storeVars, now, uploadDir, reqs>>

NextCleanup ==
  \/ \E f \in CleanupFiles, count \in 1..MaxCandidates : GenerateCandidates(f, count)
  \/ \E f \in CleanupFiles : CleanupUnusedThumbnails(f)

SpecCleanup == Init /\ [][NextCleanup]_vars

\* C28: cleanupUnusedThumbnails run for one video deletes only selection
\* candidates generated for that video: selection candidates of any other
\* video with a different base name (for example one whose base name contains
\* the first as a substring) are left in place.
C28_CleanupRemovesOwnCandidatesOnly ==
  lastResult.op = "cleanupUnusedThumbnails" =>
    \A file \in lastResult.removed :
      IsCandidateOf(file, PathParseName(lastResult.filename))

\* candidates of a video whose base name neither contains the cleaned
\* video's base name nor is contained in it are left in place: this part
\* holds of the code
C28_HoldsForUnrelatedNames ==
  lastResult.op = "cleanupUnusedThumbnails" =>
    \A file \in lastResult.removed : \A g \in CleanupFiles :
      IsCandidateOf(file, PathParseName(g)) =>
        \/ Includes(PathParseName(g), PathParseName(lastResult.filename))
        \/ Includes(PathParseName(lastResult.filename), PathParseName(g))

\* ------------------------------------------ specification: the tag tree
\* Tag.buildTagHierarchy: every row gets an empty children list and goes
\* into a map by id; then a row with a parent_id is pushed to the children of
\* its parent if the map has one, and a row without parent_id is a root.
\* The result names the rows by id (the ORDER BY of the rows is not modelled).
BuildTagHierarchy(rows) ==
  LET ids == {t.id : t \in rows}
  IN [flat |-> ids,
      hierarchical |-> {t.id : t \in {x \in rows : x.parent_id = NULL}},
      children |-> [id \in ids |->
                      {t.id : t \in {x \in rows : x.parent_id = id}}]]

\* Tag.getHierarchicalTags
GetHierarchicalTags ==
  /\ lastResult' = [op |-> "getHierarchicalTags", ok |-> TRUE, ret |-> NULL]
                     @@ BuildTagHierarchy(tags)
  /\ UNCHANGED <<storeVars, restVars>>

NextHierarchy ==
  \/ \E n \in CasedTagNames, p \in {NULL} \cup 1..MaxTags : CreateTag(n, p)
  \/ \E id \in 1..MaxTags : DeleteTag(id)
  \/ GetHierarchicalTags

SpecHierarchy == Init /\ [][NextHierarchy]_vars

\* how often tag id appears in the trees below the nodes of S, looking depth
\* levels down
RECURSIVE TimesInTree(_, _, _, _)
TimesInTree(r, S, id, depth) ==
  IF S = {} \/ depth = 0 THEN 0
  ELSE LET node == CHOOSE x \in S : TRUE
       IN (IF node = id THEN 1 ELSE 0)
            + TimesInTree(r, r.children[node], id, depth - 1)
            + TimesInTree(r, S \ {node}, id, depth)

\* C29: for every set of tags reachable through createTag and deleteTag,
\* every tag of the flat list returned by getHierarchicalTags appears exactly
\* once in the returned tree, either as a root or as a descendant of a root.
C29_EveryTagOnceInTree ==
  lastResult.op = "getHierarchicalTags" =>
    \A id \in lastResult.flat :
      TimesInTree(lastResult, lastResult.hierarchical, id,
                  Cardinality(lastResult.flat)) = 1

\* no tag appears twice, and a tag whose chain of parents ends at a tag
\* without parent appears once: this part holds of the code
C29_HoldsForTagsUnderARoot ==
  lastResult.op = "getHierarchicalTags" =>
    \A id \in lastResult.flat :
      LET times == TimesInTree(lastResult, lastResult.hierarchical, id,
                               Cardinality(lastResult.flat))
      IN /\ times <= 1
         /\ (\E root \in tags : /\ root.parent_id = NULL
                                /\ id \in TagSubtree({root.id}, tags))
              => times = 1

\* ------------------------------------- specification: tag clicks in the client
\* The page of the browser client with a library of two videos, the first
\* tagged A and the second tagged B, after loadVideos has filled allVideos.
\* lastResult is the page after the last step: the tags selected
\* (selectedTagFilters) and the videos shown by the last renderVideos
\* (rendered); reqs holds the searches in flight with the tag list each was
\* sent with.  The server answers every search, in any order.
MaxInFlight == 2

AllVideosLabel == "all"

InitClient ==
  /\ videos = {[id |-> 1, filename |-> F_a, title |-> F_a,
                file_path |-> <<LibDir, 1>>, thumbnail_path |-> NULL,
                created_at |-> 0],
               [id |-> 2, filename |-> F_a, title |-> F_a,
                file_path |-> <<LibDir, 2>>, thumbnail_path |-> NULL,
                created_at |-> 0]}
  /\ tags = {[id |-> 1, name |-> <<"A">>, parent_id |-> NULL, level |-> 1],
             [id |-> 2, name |-> <<"B">>, parent_id |-> NULL, level |-> 1]}
  /\ video_tags = SetToBag({Link(1, 1), Link(2, 2)})
  /\ nextVideoId = 3
  /\ nextTagId = 3
  /\ now = 0
  /\ thumbDir = <<>>
  /\ uploadDir = {}
  /\ reqs = <<>>
  /\ lastResult = [op |-> "loadVideos", ok |-> TRUE, tagName |-> AllVideosLabel,
                   selectedTagFilters |-> <<>>, rendered |-> {1, 2},
                   sent |-> FALSE]

\* selectedTagFilters after a click on tagName: splice if it is there, push
\* if it is not
ToggleTag(selected, tagName) ==
  IF tagName \in Range(selected)
  THEN SelectSeq(selected, LAMBDA t : t # tagName)
  ELSE Append(selected, tagName)

\* filterByTag(null): the All entry
FilterByAll ==
  /\ lastResult' = [lastResult EXCEPT !.op = "filterByTag",
                                      !.tagName = AllVideosLabel,
                                      !.selectedTagFilters = <<>>,
                                      !.rendered = VideoIds,
                                      !.sent = FALSE]
  /\ UNCHANGED <<storeVars, restVars>>

\* filterByTag(tagName) up to the await in performMultiTagSearch: the
\* request carries JSON.stringify(selectedTagFilters) as it is now
FilterByTag(tagName) ==
  LET selected == ToggleTag(lastResult.selectedTagFilters, tagName)
  IN IF Len(selected) = 0
     THEN /\ lastResult' = [lastResult EXCEPT !.op = "filterByTag",
                                              !.tagName = tagName,
                                              !.selectedTagFilters = selected,
                                              !.rendered = VideoIds,
                                              !.sent = FALSE]
          /\ UNCHANGED <<storeVars, restVars>>
     ELSE /\ Len(reqs) < MaxInFlight
          /\ reqs' = Append(reqs, [kind |-> "search", tags |-> selected])
          /\ lastResult' = [lastResult EXCEPT !.op = "filterByTag",
                                              !.tagName = tagName,
                                              !.selectedTagFilters = selected,
                                              !.sent = TRUE]
          /\ UNCHANGED <<storeVars, now, thumbDir, uploadDir>>

\* performMultiTagSearch after the await: the answer to request i has
\* arrived and renderVideos(results) shows it
SearchSettles(i) ==
  /\ reqs[i].kind = "search"
  /\ reqs' = RemoveAt(reqs, i)
  /\ lastResult' = [lastResult EXCEPT !.op = "performMultiTagSearch",
                                      !.rendered = SearchByTagsRows(reqs[i].tags),
                                      !.sent = FALSE]
  /\ UNCHANGED <<storeVars, now, thumbDir, uploadDir>>

NextClient ==
  \/ FilterByAll
  \/ \E tagName \in TagNames : FilterByTag(tagName)
  \/ \E i \in DOMAIN reqs : SearchSettles(i)

SpecClient == InitClient /\ [][NextClient]_vars

\* C30: in the client, after any sequence of tag clicks (including clicks
\* made while an earlier search is still in flight), once all requests have
\* settled the displayed video list corresponds to the current tag
\* selection: all videos when no tag is selected, otherwise the multi-tag
\* result for exactly the selected tags; no multi-tag search is ever sent
\* with an empty tag list.
C30_DisplayFollowsSelection ==
  /\ reqs = <<>> =>
       lastResult.rendered =
         IF lastResult.selectedTagFilters = <<>> THEN VideoIds
         ELSE SearchByTagsRows(lastResult.selectedTagFilters)
  /\ \A i \in DOMAIN reqs : reqs[i].tags # <<>>

\* no multi-tag search is sent with an empty tag list: this part holds of
\* the code
C30_NoEmptySearchSent == \A i \in DOMAIN reqs : reqs[i].tags # <<>>

\* a search that settles while it is the only one in flight and no click
\* was made since it was sent shows the result for the selection: this part
\* holds of the code
C30_HoldsForUndisturbedSearch ==
  [][(Len(reqs) = 1 /\ reqs[1].tags = lastResult.selectedTagFilters
        /\ reqs' = <<>>)
     => lastResult'.rendered = SearchByTagsRows(lastResult'.selectedTagFilters)]_vars

====
